---------------------------- MODULE Spec2Model ----------------------------
(***************************************************************************)
(* A model of the market snapshot cache (evetele/market.py), of the        *)
(* versioned market order and the simple market order (evetele/trade.py),  *)
(* and of the cached places and items (evetele/place.py, static.py) of     *)
(* eve-telemetrics.                                                        *)
(*                                                                         *)
(* Python dicts are functions with a finite domain, lists are sequences,   *)
(* an order's data dict is a record that may lack keys, and an exception   *)
(* is an outcome recorded in the history variable of the failed call.      *)
(* Calls are whole steps, except where threads share the market or the     *)
(* entity caches: there each statement of a call is a step.                *)
(***************************************************************************)
EXTENDS Integers, Sequences, FiniteSets, TLC

VARIABLES
    _data,      \* Market._data: region_id -> system_id -> location_id -> type_id -> list
    last,       \* the last call on the market: its arguments and its outcome
    calls,      \* the number of calls made on the market so far
    inst,       \* the VersionedMarketOrder instance: none yet, bare, or with snapshots
    snapshots,  \* VersionedMarketOrder.snapshots: isoformat(t) -> snapshot
    vlast,      \* the last call on the versioned order: its arguments and its outcome
    _cache,     \* the _cache dict of each entity class: id -> instance
    made,       \* the number of entity instances created so far
    held,       \* the instances some caller was handed, by their serial numbers
    plast,      \* the last call on an entity class or instance, and its outcome
    pcalls,     \* the number of calls made on entity classes and instances so far
    order,      \* the SimpleMarketOrder: its data dict and its _cached_issued
    olast,      \* the last property read on the order, and its outcome
    fget_calls, \* how often the function that issued wraps has run on the order
    threads,    \* the threads that call the market: where each stands, and its locals
    filled,     \* the paths of the market's lists that have held a snapshot
    overlapped, \* whether an update began while another thread was in one
    tcalls,     \* the number of calls the threads began on the market
    makers,     \* the threads that construct entities: where each stands, and its locals
    mcalls      \* the number of constructions the threads began

vars == <<_data, last, calls, inst, snapshots, vlast,
          _cache, made, held, plast, pcalls, order, olast, fget_calls,
          threads, filled, overlapped, tcalls, makers, mcalls>>

marketVars == <<_data, last, calls>>

versionedVars == <<inst, snapshots, vlast>>

placeVars == <<_cache, made, held, plast, pcalls>>

orderVars == <<order, olast, fget_calls>>

threadVars == <<threads, filled, overlapped, tcalls>>

makerVars == <<makers, mcalls>>

---------------------------------------------------------------------------
(* Bounds of the model. *)

\* The longest batch a fetch returns.
MaxBatch == 2

\* The number of calls made on the market.
MaxCalls == 2

---------------------------------------------------------------------------
(* The identifiers the feed and the callers use. *)

RegionIds == {10, 20}

SystemIds == {31, 32}

StationIds == {311, 312, 321}

TypeIds == {34, 35}

\* The capture timestamps util.get_utc_datetime can return.
Times == {1, 2}

\* None, for an argument that is omitted.
None == 0

\* A well-formed order record of the feed.
OrderAt(place, type_id) ==
    [order_id |-> place[2] * 100 + type_id, type_id |-> type_id,
     system_id |-> place[1], location_id |-> place[2]]

\* A well-formed record that carries a region_id of its own besides.
OrderWithRegion(place, type_id, region_id) ==
    [order_id |-> place[2] * 100 + type_id, type_id |-> type_id,
     system_id |-> place[1], location_id |-> place[2], region_id |-> region_id]

\* The orders on the market: two types at one station, one of them at a second
\* station of the same system too, and one in another system, whose record
\* names region 10 whichever region was asked for.
GoodRecords ==
    { OrderAt(<<31, 311>>, 34), OrderAt(<<31, 311>>, 35),
      OrderAt(<<31, 312>>, 35), OrderWithRegion(<<32, 321>>, 34, 10) }

\* Records that lack one of the keys Market.update reads.
BadRecords ==
    { [order_id |-> 1, system_id |-> 31, location_id |-> 311],
      [order_id |-> 2, type_id |-> 34, location_id |-> 311],
      [order_id |-> 3, type_id |-> 34, system_id |-> 31] }

Records == GoodRecords \cup BadRecords

Batches == UNION {[1..n -> Records] : n \in 0..MaxBatch}

\* The outcome of ESIClientWrapper.fetch: an exception (raises), or a list of records.
FetchOutcomes ==
    {[raises |-> TRUE, records |-> <<>>]}
    \cup {[raises |-> FALSE, records |-> b] : b \in Batches}

---------------------------------------------------------------------------
(* collections.defaultdict *)

\* The empty dict, and the empty list.
EmptyDict == <<>>

EmptyList == <<>>

\* A variant that rebinds the name to a new dict holding the one key.
SetItemOnly(d, key, value) ==
    [k \in {key} |-> value]

\* d[key] = value on a dict.
SetItem(d, key, value) ==
    [k \in DOMAIN d \cup {key} |-> IF k = key THEN value ELSE d[k]]

\* The value defaultdict.__getitem__ returns: the stored one, or the default.
GetItem(d, key, default) ==
    IF key \in DOMAIN d THEN d[key] ELSE default

\* A variant that builds a fresh dict holding only the key asked for.
MissingFresh(d, key, default) ==
    [k \in {key} |-> IF key \in DOMAIN d THEN d[key] ELSE default]

\* The defaultdict after d[key] was read: an absent key is inserted with the
\* default (__missing__), a present one leaves the dict as it is.
Missing(d, key, default) ==
    IF key \in DOMAIN d THEN d ELSE SetItem(d, key, default)

---------------------------------------------------------------------------
(* trade.MarketOrderSnapshot *)

\* A variant that tags the snapshot with the time its record was reached.
MarketOrderSnapshotLate(obj, t) ==
    [data |-> obj, t |-> IF t = 1 THEN 2 ELSE 1]

\* MarketOrderSnapshot(obj, t) for a raw dict obj.
MarketOrderSnapshot(obj, t) ==
    [data |-> obj, t |-> t]

---------------------------------------------------------------------------
(* Market.update *)

\* A variant that never removes the contents of the order list.
ClearNever(order_list, type_id, seen) ==
    order_list

\* Lines 62-65: the list's contents are removed at the first sighting of the
\* record's type_id in this call.
ClearOnFirstSighting(order_list, type_id, seen) ==
    IF type_id \notin seen THEN EmptyList ELSE order_list

\* Lines 58-61: the keys a record is filed under below the region node.
StoreKey(data) ==
    <<data.system_id, data.location_id, data.type_id>>

\* The loop of lines 57-68 from record i on. raised is 0 when the loop ends, and
\* the index of the record whose missing key raised KeyError otherwise; node is
\* the region node as the loop left it.
RECURSIVE UpdateLoop(_, _, _, _, _)
UpdateLoop(region_node, seen, batch, i, tstamp) ==
    IF i > Len(batch) THEN [node |-> region_node, raised |-> 0]
    ELSE LET data == batch[i] IN
         IF "type_id" \notin DOMAIN data \/ "system_id" \notin DOMAIN data
         THEN [node |-> region_node, raised |-> i]
         ELSE
         LET region1 == Missing(region_node, data.system_id, EmptyDict)
             system_node == GetItem(region_node, data.system_id, EmptyDict)
         IN  IF "location_id" \notin DOMAIN data
             THEN [node |-> region1, raised |-> i]
             ELSE
             LET key == StoreKey(data)
                 system1 == Missing(system_node, key[2], EmptyDict)
                 station_node == GetItem(system_node, key[2], EmptyDict)
                 order_list == GetItem(station_node, key[3], EmptyList)
                 new_list ==
                     Append(ClearOnFirstSighting(order_list, data.type_id, seen),
                            MarketOrderSnapshot(data, tstamp))
                 station2 == SetItem(station_node, key[3], new_list)
                 system2 == SetItem(system1, key[2], station2)
                 region2 == SetItem(region1, key[1], system2)
             IN  UpdateLoop(region2, seen \cup {data.type_id}, batch, i + 1, tstamp)

\* A variant that makes room for every region the records name.
UpdateResultNamedRegions(d, region_id, fetched, tstamp) ==
    LET named == {fetched.records[i].region_id :
                    i \in {j \in 1..Len(fetched.records) :
                            "region_id" \in DOMAIN fetched.records[j]}}
        d0 == [R \in DOMAIN d \cup named |-> IF R \in DOMAIN d THEN d[R] ELSE EmptyDict]
        d1 == Missing(d0, region_id, EmptyDict)
    IN  IF fetched.raises
        THEN [d |-> d1, raised |-> -1]
        ELSE LET r == UpdateLoop(d1[region_id], {}, fetched.records, 1, tstamp)
             IN  [d |-> SetItem(d1, region_id, r.node), raised |-> r.raised]

\* The market's dict and the call's outcome after update(region_id) whose fetch
\* gave `fetched` and whose clock read `tstamp`.
UpdateResult(d, region_id, fetched, tstamp) ==
    LET d1 == Missing(d, region_id, EmptyDict)
    IN  IF fetched.raises
        THEN [d |-> d1, raised |-> -1]
        ELSE LET r == UpdateLoop(d1[region_id], {}, fetched.records, 1, tstamp)
             IN  [d |-> SetItem(d1, region_id, r.node), raised |-> r.raised]

\* Whether `fetched` can be the feed's answer to a request narrowed to type_id
\* (to nothing when that is None): the records it returns are of the type asked for.
Fetch(type_id, fetched) ==
    \/ type_id = None
    \/ \A i \in 1..Len(fetched.records) :
            "type_id" \in DOMAIN fetched.records[i] => fetched.records[i].type_id = type_id

\* Market.update(region_id, type_id): type_id only narrows what is asked of the
\* feed; the records the fetch gives decide what is stored.
update(region_id, type_id, fetched, tstamp) ==
    /\ calls < MaxCalls
    /\ Fetch(type_id, fetched)
    /\ LET res == UpdateResult(_data, region_id, fetched, tstamp)
       IN  /\ _data' = res.d
           /\ last' = [op |-> "update", region_id |-> region_id,
                       fetched |-> fetched.records, tstamp |-> tstamp,
                       raised |-> res.raised, path |-> <<>>, missed |-> FALSE,
                       retval |-> <<>>]
    /\ calls' = calls + 1
    /\ UNCHANGED <<versionedVars, placeVars, orderVars, threadVars, makerVars>>

---------------------------------------------------------------------------
(* Market.__getitem__ and the indexing of the nodes it returns *)

IndexPaths ==
    {<<r>> : r \in RegionIds}
    \cup (RegionIds \X SystemIds)
    \cup (RegionIds \X SystemIds \X StationIds)
    \cup (RegionIds \X SystemIds \X StationIds \X TypeIds)

\* The default a node at the given depth inserts for an absent key.
DefaultAt(depth) ==
    IF depth = 4 THEN EmptyList ELSE EmptyDict

\* A variant that assigns the default at every key read, present or not.
RECURSIVE VivifiedReset(_, _, _)
VivifiedReset(node, path, i) ==
    IF i > Len(path) THEN node
    ELSE SetItem(node, path[i], VivifiedReset(DefaultAt(i), path, i + 1))

\* The node after node[path[i]][path[i+1]]... was read.
RECURSIVE Vivified(_, _, _)
Vivified(node, path, i) ==
    IF i > Len(path) THEN node
    ELSE LET node1 == Missing(node, path[i], DefaultAt(i))
         IN  SetItem(node1, path[i], Vivified(node1[path[i]], path, i + 1))

\* The value node[path[i]][path[i+1]]... yields.
RECURSIVE Lookup(_, _, _)
Lookup(node, path, i) ==
    IF i > Len(path) THEN node
    ELSE Lookup(GetItem(node, path[i], DefaultAt(i)), path, i + 1)

\* market[path[1]]...[path[n]]
getitem(path) ==
    /\ calls < MaxCalls
    /\ _data' = Vivified(_data, path, 1)
    /\ last' = [op |-> "getitem", region_id |-> path[1], fetched |-> <<>>,
                tstamp |-> 0, raised |-> 0, path |-> path,
                missed |-> (_data' # _data), retval |-> Lookup(_data, path, 1)]
    /\ calls' = calls + 1
    /\ UNCHANGED <<versionedVars, placeVars, orderVars, threadVars, makerVars>>

---------------------------------------------------------------------------
(* The market alone. *)

InitMarket ==
    /\ _data = EmptyDict
    /\ last = [op |-> "init", region_id |-> 0, fetched |-> <<>>, tstamp |-> 0,
               raised |-> 0, path |-> <<>>, missed |-> FALSE, retval |-> <<>>]
    /\ calls = 0

InitVersioned ==
    /\ inst = "none"
    /\ snapshots = EmptyDict
    /\ vlast = [op |-> "init", given |-> <<>>,
                obj |-> [kind |-> "None", data |-> [order_id |-> 0, price |-> 0],
                         t |-> [instant |-> 0, offset |-> 0]],
                t |-> [instant |-> 0, offset |-> 0], outcome |-> "ok",
                before |-> <<>>]

\* No entity was constructed yet: every class has its empty _cache = {}.
InitPlace ==
    /\ _cache = [cls \in {"region", "system", "station", "market_type"} |-> <<>>]
    /\ made = 0
    /\ held = {}
    /\ plast = [op |-> "init", cls |-> "", id |-> 0,
                ident |-> [kind |-> "int", id |-> 0, name |-> ""],
                outcome |-> "ok", obj |-> 0, hit |-> FALSE, fetched_metadata |-> FALSE,
                type_id |-> 0, fetched |-> [raises |-> FALSE, records |-> <<>>],
                tstamp |-> 0, retval |-> <<>>]
    /\ pcalls = 0

\* No order was built yet.
InitOrder ==
    /\ order = [made |-> FALSE,
                data |-> [issued |-> [kind |-> "int", neg |-> FALSE, hi |-> 0, lo |-> 0]],
                _cached_issued |-> [set |-> FALSE, value |-> [k |-> 0, r |-> 0, us |-> 0]]]
    /\ olast = [op |-> "init", outcome |-> "ok", value |-> [k |-> 0, r |-> 0, us |-> 0],
                tz |-> 0]
    /\ fget_calls = 0

\* The threads that call the market, and those that construct entities.
ThreadIds == {1, 2}

MakerIds == {1, 2}

\* A thread that is in no call of the market: the op, the outcome and the
\* return value are those of the call it made last.
Idle ==
    [pc |-> "idle", op |-> "none", call |-> 0, region_id |-> 0, tstamp |-> 0,
     records |-> <<>>, i |-> 0, seen |-> {}, path |-> <<>>, removed |-> <<>>,
     outcome |-> "ok", retval |-> <<>>]

\* A thread that is in no construction.
Resting ==
    [pc |-> "rest", call |-> 0, cls |-> "", ident |-> [kind |-> "int", id |-> 0, name |-> ""],
     id_ |-> 0, inst |-> 0, missed |-> FALSE, fetched_metadata |-> FALSE,
     outcome |-> "ok", obj |-> 0]

\* No thread has called yet.
InitThreads ==
    /\ threads = [th \in ThreadIds |-> Idle]
    /\ filled = {}
    /\ overlapped = FALSE
    /\ tcalls = 0

InitMakers ==
    /\ makers = [m \in MakerIds |-> Resting]
    /\ mcalls = 0

Init ==
    /\ InitMarket /\ InitVersioned /\ InitPlace /\ InitOrder
    /\ InitThreads /\ InitMakers

Next ==
    \/ \E region_id \in RegionIds, type_id \in TypeIds \cup {None},
          fetched \in FetchOutcomes, tstamp \in Times :
            update(region_id, type_id, fetched, tstamp)
    \/ \E path \in IndexPaths : getitem(path)

Spec == Init /\ [][Next]_vars

---------------------------------------------------------------------------
(* What the claims about the market speak of. *)

\* The paths <<region_id, system_id, location_id, type_id>> of the lists of d.
PathsOf(d) ==
    UNION {UNION {UNION {{<<r, s, st, T>> : T \in DOMAIN d[r][s][st]}
                         : st \in DOMAIN d[r][s]}
                  : s \in DOMAIN d[r]}
           : r \in DOMAIN d}

ListAt(d, p) == d[p[1]][p[2]][p[3]][p[4]]

\* The list at p, empty when d has no such path.
ListOrEmpty(d, p) ==
    IF p \in PathsOf(d) THEN ListAt(d, p) ELSE <<>>

\* The records of a batch that carry all three keys and belong at path p.
FiledAt(batch, p) ==
    SelectSeq(batch, LAMBDA rec :
        /\ {"type_id", "system_id", "location_id"} \subseteq DOMAIN rec
        /\ rec.system_id = p[2] /\ rec.location_id = p[3] /\ rec.type_id = p[4])

\* The snapshots built from records, tagged t.
SnapshotsOf(records, t) ==
    [i \in 1..Len(records) |-> [data |-> records[i], t |-> t]]

\* The type_ids that occur in a batch.
TypesIn(batch) ==
    {batch[i].type_id : i \in {j \in 1..Len(batch) : "type_id" \in DOMAIN batch[j]}}

\* The order data of a list, without the capture timestamps.
DataOf(list) ==
    [i \in 1..Len(list) |-> list[i].data]

IsSuffix(tail, list) ==
    /\ Len(tail) <= Len(list)
    /\ SubSeq(list, Len(list) - Len(tail) + 1, Len(list)) = tail

\* The last call was an update that returned.
Updated == last.op = "update" /\ last.raised = 0

\* The step is a call of update that returned / that raised.
UpdateReturns == calls' = calls + 1 /\ last'.op = "update" /\ last'.raised = 0

UpdateRaises == calls' = calls + 1 /\ last'.op = "update" /\ last'.raised # 0

---------------------------------------------------------------------------
\* C1: after update(R) returns, every list under R whose type_id occurs in the
\* fetched batch holds exactly the snapshots built from this batch's records
\* for that path, and no snapshot of an earlier call.
C1_FullReplace ==
    Updated =>
        \A p \in PathsOf(_data) :
            (p[1] = last.region_id /\ p[4] \in TypesIn(last.fetched)) =>
                ListAt(_data, p) = SnapshotsOf(FiledAt(last.fetched, p), last.tstamp)

\* C2: update(R) called twice in a row with the same fetched records leaves
\* every list under R with the same order data, in the same positions, as after
\* the first call.
C2_Idempotent ==
    [][(Updated /\ UpdateReturns /\ last'.region_id = last.region_id
            /\ last'.fetched = last.fetched) =>
        \A p \in PathsOf(_data') :
            p[1] = last.region_id =>
                DataOf(ListAt(_data', p)) = DataOf(ListOrEmpty(_data, p))]_vars

\* C3 as stated: a list that holds one order is left empty by a later update(R)
\* whose batch has no record of the list's type_id.
C3_EmptiedWhenAbsent ==
    [][UpdateReturns =>
        \A p \in PathsOf(_data) :
            (p[1] = last'.region_id /\ Len(ListAt(_data, p)) = 1
                /\ p[4] \notin TypesIn(last'.fetched)) =>
                    ListOrEmpty(_data', p) = <<>>]_vars

\* C3 as amended: a list that holds one order still holds that one order after
\* a later update(R) whose batch has no record of the list's type_id.
C3_KeptWhenAbsent ==
    [][UpdateReturns =>
        \A p \in PathsOf(_data) :
            (p[1] = last'.region_id /\ Len(ListAt(_data, p)) = 1
                /\ p[4] \notin TypesIn(last'.fetched)) =>
                    /\ p \in PathsOf(_data')
                    /\ Len(ListAt(_data', p)) = 1
                    /\ ListAt(_data', p)[1] = ListAt(_data, p)[1]]_vars

\* C3's case: an update with records has returned, and a list under its region
\* of a type the batch does not mention holds one order.
C3_Witness ==
    /\ Updated /\ last.fetched # <<>>
    /\ \E p \in PathsOf(_data) :
        /\ p[1] = last.region_id /\ p[4] \notin TypesIn(last.fetched)
        /\ Len(ListAt(_data, p)) = 1

\* C4: update(R) leaves every list under R whose type_id does not occur in the
\* fetched batch as it was: the same snapshots in the same order.
C4_OtherTypesUntouched ==
    [][(calls' = calls + 1 /\ last'.op = "update") =>
        \A p \in PathsOf(_data) :
            (p[1] = last'.region_id /\ p[4] \notin TypesIn(last'.fetched)) =>
                (p \in PathsOf(_data') /\ ListAt(_data', p) = ListAt(_data, p))]_vars

\* C4's case: an update has stored a record at a station where a list of
\* another type still holds a snapshot captured at another time.
C4_Witness ==
    /\ Updated
    /\ \E p \in PathsOf(_data), q \in PathsOf(_data) :
        /\ p[1] = last.region_id /\ p[4] \notin TypesIn(last.fetched)
        /\ q[1] = p[1] /\ q[2] = p[2] /\ q[3] = p[3] /\ q[4] \in TypesIn(last.fetched)
        /\ ListAt(_data, q) # <<>>
        /\ ListAt(_data, p) # <<>>
        /\ \A i \in 1..Len(ListAt(_data, p)) : ListAt(_data, p)[i].t # last.tstamp

\* C5: every snapshot found at [r][s][st][T] has system_id s, location_id st and
\* type_id T, and after an update that returned the records of its batch filed
\* at a path are the end of the list there, in batch order, all tagged with the
\* one timestamp of the call.
C5_FiledWhereTheyBelong ==
    /\ \A p \in PathsOf(_data) :
        \A i \in 1..Len(ListAt(_data, p)) :
            LET d == ListAt(_data, p)[i].data IN
            d.system_id = p[2] /\ d.location_id = p[3] /\ d.type_id = p[4]
    /\ Updated =>
        \A s \in SystemIds, st \in StationIds, T \in TypeIds :
            LET p == <<last.region_id, s, st, T>>
                stored == SnapshotsOf(FiledAt(last.fetched, p), last.tstamp)
            IN  stored # <<>> =>
                    (p \in PathsOf(_data) /\ IsSuffix(stored, ListAt(_data, p)))

\* C5's case: an update has stored two records of its batch at two stations.
C5_Witness ==
    /\ Updated /\ Len(last.fetched) = 2
    /\ last.fetched[1].location_id # last.fetched[2].location_id
    /\ \A i \in 1..2 :
        \E p \in PathsOf(_data) :
            /\ p[1] = last.region_id
            /\ [data |-> last.fetched[i], t |-> last.tstamp]
                 \in {ListAt(_data, p)[k] : k \in 1..Len(ListAt(_data, p))}

\* C6 as stated: when update raises, no list that existed before the call has
\* been cleared or appended to.
C6_FailureLeavesCacheUntouched ==
    [][UpdateRaises =>
        \A p \in PathsOf(_data) :
            p \in PathsOf(_data') /\ ListAt(_data', p) = ListAt(_data, p)]_vars

\* C6 as amended: when the fetch raises no list has changed; when record k of
\* the batch lacks a key, the records before it have been stored (a list whose
\* record is the first of its type among them holds exactly its records, any
\* other list has them appended to what it held), and a list at which
\* none of them is filed is as it was.
C6_FailureKeepsRecordsBefore ==
    [][UpdateRaises =>
        LET k == last'.raised
            before == IF k = -1 THEN <<>> ELSE SubSeq(last'.fetched, 1, k - 1)
        IN  /\ \A p \in PathsOf(_data) : p \in PathsOf(_data')
            /\ \A p \in PathsOf(_data') :
                LET stored == SnapshotsOf(FiledAt(before, p), last'.tstamp)
                    first == {i \in 1..Len(before) : before[i].type_id = p[4]}
                    old == ListOrEmpty(_data, p)
                    new == ListAt(_data', p)
                IN  IF p[1] # last'.region_id \/ stored = <<>> THEN new = old
                    ELSE IF FiledAt(<<before[CHOOSE i \in first :
                                                \A j \in first : i <= j]>>, p) # <<>>
                         THEN new = stored
                         ELSE new = old \o stored]_vars

\* C6's case: the second call, an update, raised at the second record of its
\* batch and left the first record stored, alone in its list.
C6_Witness ==
    /\ last.op = "update" /\ last.raised = 2 /\ calls = 2
    /\ \E p \in PathsOf(_data) :
        /\ p[1] = last.region_id
        /\ FiledAt(last.fetched, p) # <<>>
        /\ ListAt(_data, p) = <<[data |-> last.fetched[1], t |-> last.tstamp]>>

\* Whether every key of the path is present in the nested dict.
RECURSIVE HasPath(_, _, _)
HasPath(node, path, i) ==
    \/ i > Len(path)
    \/ path[i] \in DOMAIN node /\ HasPath(node[path[i]], path, i + 1)

\* C7: indexing the market with an absent key at any level does not raise and
\* yields an empty container, and no list that holds snapshots changes.
C7_IndexingNeverFails ==
    [][(calls' = calls + 1 /\ last'.op = "getitem") =>
        /\ last'.raised = 0
        /\ ~HasPath(_data, last'.path, 1) => last'.retval = <<>>
        /\ HasPath(_data', last'.path, 1)
        /\ \A p \in PathsOf(_data) :
            p \in PathsOf(_data') /\ ListAt(_data', p) = ListAt(_data, p)]_vars

\* C7's case: an absent type_id was indexed at a station whose other list holds
\* a snapshot, and came back empty.
C7_Witness ==
    /\ last.op = "getitem" /\ Len(last.path) = 4 /\ last.missed
    /\ last.retval = <<>>
    /\ \E p \in PathsOf(_data) :
        /\ p[1] = last.path[1] /\ p[2] = last.path[2] /\ p[3] = last.path[3]
        /\ ListAt(_data, p) # <<>>

---------------------------------------------------------------------------
(* datetime.datetime, as far as trade.py uses it *)

\* The longest sequence from_snapshots is given.
MaxSnapshots == 2

\* An aware datetime: the instant (hours on the UTC time line) and the UTC
\* offset (hours east) it is written with.
Instants == {1, 2}

Offsets == {0, 1}

Datetimes == [instant : Instants, offset : Offsets]

\* None, for the argument t.
NoTime == [instant |-> 0, offset |-> 0]

\* a == b on aware datetimes: the same instant, whatever the offsets.
SameTime(a, b) == a.instant = b.instant

\* datetime.isoformat(): the wall-clock time of the datetime's own offset,
\* followed by the offset ("...T02:00:00+01:00" for instant 1 written at +01:00).
isoformat(t) == <<t.instant + t.offset, t.offset>>

\* a < b on the strings isoformat gives: character by character, so by the
\* wall-clock part first and by the offset suffix next.
StringLess(a, b) ==
    \/ a[1] < b[1]
    \/ a[1] = b[1] /\ a[2] < b[2]

---------------------------------------------------------------------------
(* trade.VersionedMarketOrder *)

OrderIds == {1234, 4321}

\* The data dict of an order: its id and a field that changes between views.
OrderData == [order_id : OrderIds, price : {1, 2}]

\* What add and __init__ can be given as obj: a MarketOrderSnapshot (with its
\* own t), a SimpleMarketOrder, a raw dict, an object of another type, or None.
SnapshotObjects ==
    [kind : {"MarketOrderSnapshot"}, data : OrderData, t : Datetimes]

PlainObjects ==
    [kind : {"SimpleMarketOrder", "dict"}, data : OrderData, t : {NoTime}]

OtherObject == [kind |-> "str", data |-> [order_id |-> 0, price |-> 0], t |-> NoTime]

NoObject == [kind |-> "None", data |-> [order_id |-> 0, price |-> 0], t |-> NoTime]

Objects == SnapshotObjects \cup PlainObjects \cup {OtherObject}

\* The value stored for a snapshot: its data and its timestamp.
SnapshotValue(data, t) == [data |-> data, t |-> t]

\* sorted(self.snapshots.items())[-1][1]: the snapshot at the greatest key.
latest(snaps) ==
    snaps[CHOOSE k \in DOMAIN snaps : \A j \in DOMAIN snaps : j = k \/ StringLess(j, k)]

\* self.order_id: the order_id of the latest snapshot's data.
order_id(snaps) == latest(snaps).data.order_id

\* A variant that compares the other order's id with itself.
_validate_order_id_self(snaps, other) ==
    other.data.order_id = other.data.order_id

\* _validate_order_id: TRUE when it returns, FALSE when it raises ValueError.
_validate_order_id(snaps, other) ==
    other.data.order_id = order_id(snaps)

\* A variant that takes any t given with a snapshot and wants none otherwise.
TimestampFaultLax(obj, t) ==
    IF obj.kind \in {"MarketOrderSnapshot", "SimpleMarketOrder", "dict"}
    THEN "ok" ELSE "TypeError"

\* Lines 198-212: the exception the checks of obj and t raise, or "ok".
TimestampFault(obj, t) ==
    IF obj.kind = "MarketOrderSnapshot"
    THEN IF t # NoTime /\ ~SameTime(obj.t, t) THEN "ValueError" ELSE "ok"
    ELSE IF obj.kind \in {"SimpleMarketOrder", "dict"}
    THEN IF t = NoTime THEN "TypeError" ELSE "ok"
    ELSE "TypeError"

\* A variant that takes the t of the call for every kind of obj.
SnapshotToAddGiven(obj, t) ==
    SnapshotValue(obj.data, t)

\* Lines 199-209: the snapshot to store, and the t its key is made from.
SnapshotToAdd(obj, t) ==
    IF obj.kind = "MarketOrderSnapshot"
    THEN SnapshotValue(obj.data, obj.t)
    ELSE SnapshotValue(obj.data, t)

\* A variant that starts a new dict at every successful add.
add_result_restarting(state, snaps, obj, t) ==
    LET fault == TimestampFault(obj, t)
        snapshot == SnapshotToAdd(obj, t)
    IN  IF fault # "ok" THEN [outcome |-> fault, snapshots |-> snaps]
        ELSE IF state # "ready" THEN [outcome |-> "AttributeError", snapshots |-> snaps]
        ELSE IF ~_validate_order_id(snaps, snapshot)
        THEN [outcome |-> "ValueError", snapshots |-> snaps]
        ELSE [outcome |-> "ok",
              snapshots |-> SetItem(EmptyDict, isoformat(snapshot.t), snapshot)]

\* A variant that stores the snapshot before it validates the order id.
add_store_first(state, snaps, obj, t) ==
    LET fault == TimestampFault(obj, t)
        snapshot == SnapshotToAdd(obj, t)
    IN  IF fault # "ok" THEN [outcome |-> fault, snapshots |-> snaps]
        ELSE IF state # "ready" THEN [outcome |-> "AttributeError", snapshots |-> snaps]
        ELSE [outcome |-> IF _validate_order_id(snaps, snapshot) THEN "ok" ELSE "ValueError",
              snapshots |-> SetItem(snaps, isoformat(snapshot.t), snapshot)]

\* VersionedMarketOrder.add on an instance in `state` ("bare": no snapshots
\* attribute was ever set; "ready": it holds the dict snaps): the outcome and
\* the dict afterwards.
add_result(state, snaps, obj, t) ==
    LET fault == TimestampFault(obj, t)
        snapshot == SnapshotToAdd(obj, t)
    IN  IF fault # "ok" THEN [outcome |-> fault, snapshots |-> snaps]
        ELSE IF state # "ready" THEN [outcome |-> "AttributeError", snapshots |-> snaps]
        ELSE IF ~_validate_order_id(snaps, snapshot)
        THEN [outcome |-> "ValueError", snapshots |-> snaps]
        ELSE [outcome |-> "ok",
              snapshots |-> SetItem(snaps, isoformat(snapshot.t), snapshot)]

\* The dict {o.t.isoformat(): o for o in snapshots}, built from entry i on.
RECURSIVE SnapshotDict(_, _, _)
SnapshotDict(d, given, i) ==
    IF i > Len(given) THEN d
    ELSE SnapshotDict(SetItem(d, isoformat(given[i].t),
                              SnapshotValue(given[i].data, given[i].t)),
                      given, i + 1)

\* A variant whose assertion of line 154 wants some order id, not exactly one.
from_snapshots_unchecked(given) ==
    /\ inst = "none" /\ vlast.op = "init"
    /\ IF Cardinality({given[i].data.order_id : i \in 1..Len(given)}) >= 1
       THEN /\ inst' = "ready"
            /\ snapshots' = SnapshotDict(EmptyDict, given, 1)
            /\ vlast' = [op |-> "from_snapshots", given |-> given, obj |-> NoObject,
                         t |-> NoTime, outcome |-> "ok", before |-> snapshots]
       ELSE /\ UNCHANGED <<inst, snapshots>>
            /\ vlast' = [op |-> "from_snapshots", given |-> given, obj |-> NoObject,
                         t |-> NoTime, outcome |-> "AssertionError",
                         before |-> snapshots]
    /\ UNCHANGED <<marketVars, placeVars, orderVars, threadVars, makerVars>>

\* VersionedMarketOrder.from_snapshots(given), as the first call: it builds the
\* instance the later calls are made on, or fails and leaves none.
from_snapshots(given) ==
    /\ inst = "none" /\ vlast.op = "init"
    /\ IF Cardinality({given[i].data.order_id : i \in 1..Len(given)}) = 1
       THEN /\ inst' = "ready"
            /\ snapshots' = SnapshotDict(EmptyDict, given, 1)
            /\ vlast' = [op |-> "from_snapshots", given |-> given, obj |-> NoObject,
                         t |-> NoTime, outcome |-> "ok", before |-> snapshots]
       ELSE /\ UNCHANGED <<inst, snapshots>>
            /\ vlast' = [op |-> "from_snapshots", given |-> given, obj |-> NoObject,
                         t |-> NoTime, outcome |-> "AssertionError",
                         before |-> snapshots]
    /\ UNCHANGED <<marketVars, placeVars, orderVars, threadVars, makerVars>>

\* VersionedMarketOrder(obj, t), as the first call.
new(obj, t) ==
    /\ inst = "none" /\ vlast.op = "init"
    /\ IF obj = NoObject /\ t = NoTime
       THEN /\ inst' = "bare"
            /\ vlast' = [op |-> "__init__", given |-> <<>>, obj |-> obj, t |-> t,
                         outcome |-> "ok", before |-> snapshots]
       ELSE LET res == add_result("bare", snapshots, obj, t)
            IN  /\ inst' = IF res.outcome = "ok" THEN "ready" ELSE "none"
                /\ vlast' = [op |-> "__init__", given |-> <<>>, obj |-> obj, t |-> t,
                             outcome |-> res.outcome, before |-> snapshots]
    /\ UNCHANGED snapshots
    /\ UNCHANGED <<marketVars, placeVars, orderVars, threadVars, makerVars>>

\* self.add(obj, t)
add(obj, t) ==
    /\ inst \in {"bare", "ready"}
    /\ LET res == add_result(inst, snapshots, obj, t)
       IN  /\ snapshots' = res.snapshots
           /\ vlast' = [op |-> "add", given |-> <<>>, obj |-> obj, t |-> t,
                        outcome |-> res.outcome, before |-> snapshots]
    /\ UNCHANGED inst
    /\ UNCHANGED <<marketVars, placeVars, orderVars, threadVars, makerVars>>

NextVersioned ==
    \/ \E given \in UNION {[1..n -> SnapshotObjects] : n \in 0..MaxSnapshots} :
            from_snapshots(given)
    \/ \E obj \in Objects \cup {NoObject}, t \in Datetimes \cup {NoTime} : new(obj, t)
    \/ \E obj \in Objects \cup {NoObject}, t \in Datetimes \cup {NoTime} : add(obj, t)

SpecVersioned == Init /\ [][NextVersioned]_vars

---------------------------------------------------------------------------
(* What the claims about the versioned order speak of. *)

\* The step is a call of add on the instance.
AddStep == vlast'.op = "add" /\ inst \in {"bare", "ready"}

\* C8: in every state reached by from_snapshots and any adds after it, accepted
\* or rejected, all snapshots of the versioned order have one order_id.
C8_OneOrderId ==
    inst = "ready" =>
        \A j \in DOMAIN snapshots, k \in DOMAIN snapshots :
            snapshots[j].data.order_id = snapshots[k].data.order_id

\* C8's case: an add of another order's snapshot was rejected on a versioned
\* order that an earlier add had grown to three snapshots.
C8_Witness ==
    /\ inst = "ready" /\ vlast.op = "add" /\ vlast.outcome = "ValueError"
    /\ Cardinality(DOMAIN snapshots) >= 3
    /\ vlast.obj.data.order_id # order_id(snapshots)

\* C9: add of a snapshot whose order_id differs from the one the versioned order
\* has raises ValueError and leaves the snapshots dict as it was.
C9_MismatchRejected ==
    [][(AddStep /\ inst = "ready" /\ vlast'.obj.kind = "MarketOrderSnapshot"
            /\ vlast'.obj.data.order_id # order_id(snapshots)) =>
        (vlast'.outcome = "ValueError" /\ snapshots' = snapshots)]_vars

\* C9's case: a snapshot of another order, given with no t, was rejected.
C9_Witness ==
    /\ inst = "ready" /\ vlast.op = "add" /\ vlast.outcome = "ValueError"
    /\ vlast.obj.kind = "MarketOrderSnapshot" /\ vlast.t = NoTime
    /\ vlast.obj.data.order_id # order_id(snapshots)
    /\ isoformat(vlast.obj.t) \notin DOMAIN snapshots

\* C10: add raises ValueError for a snapshot given with a t other than its own
\* and TypeError for a SimpleMarketOrder or dict given without t, the snapshots
\* dict unchanged in both cases; any other combination of these kinds with t
\* passes, so an order of the versioned order's id is stored under its t.
C10_TimestampChecked ==
    [][AddStep =>
        LET obj == vlast'.obj
            t == vlast'.t
        IN  IF obj.kind = "MarketOrderSnapshot" /\ t # NoTime /\ t.instant # obj.t.instant
            THEN vlast'.outcome = "ValueError" /\ snapshots' = snapshots
            ELSE IF obj.kind \in {"SimpleMarketOrder", "dict"} /\ t = NoTime
            THEN vlast'.outcome = "TypeError" /\ snapshots' = snapshots
            ELSE (/\ obj.kind \in {"MarketOrderSnapshot", "SimpleMarketOrder", "dict"}
                  /\ inst = "ready"
                  /\ obj.data.order_id = order_id(snapshots)) =>
                    LET used == IF obj.kind = "MarketOrderSnapshot" THEN obj.t ELSE t
                    IN  /\ vlast'.outcome = "ok"
                        /\ isoformat(used) \in DOMAIN snapshots'
                        /\ snapshots'[isoformat(used)].data = obj.data]_vars

\* C10's case: a snapshot given with a t other than its own was rejected though
\* it is of the versioned order's id.
C10_Witness ==
    /\ inst = "ready" /\ vlast.op = "add" /\ vlast.outcome = "ValueError"
    /\ vlast.obj.kind = "MarketOrderSnapshot"
    /\ vlast.t # NoTime /\ vlast.t.instant # vlast.obj.t.instant
    /\ vlast.obj.data.order_id = order_id(snapshots)

\* The t a call of add or __init__ stores its snapshot with: the snapshot's own,
\* or the one given with a plain order or dict.
UsedTime(call) ==
    IF call.obj.kind = "MarketOrderSnapshot" THEN call.obj.t ELSE call.t

\* C11: a successful add stores the snapshot under the isoformat string of its
\* timestamp and leaves every other key as it was; the number of snapshots grows
\* by one when the key was unused, and stays when the key was used, the earlier
\* snapshot at that key being replaced.
C11_StoredUnderItsKey ==
    [][(AddStep /\ vlast'.outcome = "ok") =>
        LET key == isoformat(UsedTime(vlast'))
        IN  /\ DOMAIN snapshots' = DOMAIN snapshots \cup {key}
            /\ snapshots'[key] = SnapshotValue(vlast'.obj.data, UsedTime(vlast'))
            /\ \A k \in DOMAIN snapshots \ {key} : snapshots'[k] = snapshots[k]
            /\ Cardinality(DOMAIN snapshots') =
                    IF key \in DOMAIN snapshots
                    THEN Cardinality(DOMAIN snapshots)
                    ELSE Cardinality(DOMAIN snapshots) + 1]_vars

\* C11's case: a successful add at a key that held a snapshot with other data
\* replaced it, next to a second key that stayed.
C11_Witness ==
    /\ inst = "ready" /\ vlast.op = "add" /\ vlast.outcome = "ok"
    /\ isoformat(UsedTime(vlast)) \in DOMAIN vlast.before
    /\ vlast.before[isoformat(UsedTime(vlast))].data # vlast.obj.data
    /\ snapshots[isoformat(UsedTime(vlast))].data = vlast.obj.data
    /\ Cardinality(DOMAIN snapshots) = 2
    /\ Cardinality(DOMAIN vlast.before) = 2

\* C12: the versioned order's t is the chronologically greatest timestamp of the
\* snapshots it holds (and its data that snapshot's), whatever the order they
\* were given in and whatever was added since.
C12_LatestIsNewest ==
    inst = "ready" =>
        \A k \in DOMAIN snapshots :
            snapshots[k].t.instant <= latest(snapshots).t.instant

\* The call's obj and t pass the checks add makes of them.
ValidCombination(call) == TimestampFault(call.obj, call.t) = "ok"

\* C13: a versioned order that holds no snapshot accepts its first: add with a
\* valid (obj, t) on VersionedMarketOrder() succeeds and leaves exactly that one
\* snapshot, and VersionedMarketOrder(obj, t) gives an instance the same way.
C13_FirstAddAccepted ==
    [][/\ (AddStep /\ inst = "bare" /\ ValidCombination(vlast')) =>
            /\ vlast'.outcome = "ok"
            /\ DOMAIN snapshots' = {isoformat(UsedTime(vlast'))}
       /\ (vlast'.op = "__init__" /\ vlast'.obj # NoObject /\ ValidCombination(vlast')) =>
            /\ vlast'.outcome = "ok"
            /\ inst' = "ready"]_vars

\* The order ids among the snapshots given to from_snapshots.
GivenOrderIds(given) == {given[i].data.order_id : i \in 1..Len(given)}

\* C14: from_snapshots given snapshots of more than one order_id fails with an
\* AssertionError, and no instance and no snapshots dict exist afterwards.
C14_MixedIdsRefused ==
    [][(vlast'.op = "from_snapshots" /\ Cardinality(GivenOrderIds(vlast'.given)) > 1) =>
        /\ vlast'.outcome = "AssertionError"
        /\ inst' = "none"
        /\ snapshots' = snapshots]_vars

\* C14's case: from_snapshots was given two snapshots of different orders at
\* different times, and failed.
C14_Witness ==
    /\ vlast.op = "from_snapshots" /\ vlast.outcome = "AssertionError"
    /\ Len(vlast.given) = 2
    /\ vlast.given[1].data.order_id # vlast.given[2].data.order_id
    /\ vlast.given[1].t # vlast.given[2].t
    /\ inst = "none" /\ snapshots = EmptyDict

---------------------------------------------------------------------------
(* static.EveStaticData: the static data export and the metadata made of it *)

\* The number of calls made on entity classes and instances.
MaxPlaceCalls == 3

\* The tables of the database, with the columns the queries read (the id, the
\* name and the parent's id of a row; marketGroupID of a type, None when NULL).
mapRegions ==
    { [id |-> 10, name |-> "The Forge"], [id |-> 20, name |-> "Domain"] }

mapSolarSystems ==
    { [id |-> 31, name |-> "Jita", regionID |-> 10],
      [id |-> 32, name |-> "Perimeter", regionID |-> 10],
      [id |-> 41, name |-> "Amarr", regionID |-> 20] }

staStations ==
    { [id |-> 311, name |-> "Jita IV-4", solarSystemID |-> 31],
      [id |-> 312, name |-> "Jita V-17", solarSystemID |-> 31],
      [id |-> 321, name |-> "Perimeter II-1", solarSystemID |-> 32] }

invTypes ==
    { [id |-> 34, name |-> "Tritanium", marketGroupID |-> 18],
      [id |-> 35, name |-> "Pyerite", marketGroupID |-> 18],
      [id |-> 36, name |-> "Unmarketed", marketGroupID |-> None] }

\* The row of a table with the given id.
Row(table, id) == CHOOSE row \in table : row.id = id

\* EveStaticData.regions: the dict built from the rows of the join of regions,
\* their systems and the systems' stations; a region without a system has no
\* row in the join, a system without a station has one with no station.
regions ==
    [r \in {reg.id : reg \in mapRegions} \cap {sys.regionID : sys \in mapSolarSystems} |->
        [id |-> r, name |-> Row(mapRegions, r).name,
         systems |->
            [s \in {sys.id : sys \in {x \in mapSolarSystems : x.regionID = r}} |->
                [id |-> s, name |-> Row(mapSolarSystems, s).name,
                 stations |->
                    [st \in {sta.id : sta \in {x \in staStations : x.solarSystemID = s}} |->
                        [id |-> st, name |-> Row(staStations, st).name]]]]]]

\* EveStaticData.systems: the system dicts of all regions, by system id.
systems ==
    [s \in UNION {DOMAIN regions[r].systems : r \in DOMAIN regions} |->
        regions[CHOOSE r \in DOMAIN regions : s \in DOMAIN regions[r].systems].systems[s]]

\* EveStaticData.stations: the station dicts of all systems, by station id.
stations ==
    [st \in UNION {DOMAIN systems[s].stations : s \in DOMAIN systems} |->
        systems[CHOOSE s \in DOMAIN systems : st \in DOMAIN systems[s].stations].stations[st]]

\* EveStaticData.market_types: the types that have a market group.
market_types ==
    [T \in {row.id : row \in {x \in invTypes : x.marketGroupID # None}} |->
        [id |-> T, name |-> Row(invTypes, T).name]]

\* The attributes of an instance no metadata was assigned to.
NoAttrs == [a \in {} |-> 0]

\* EveStaticData.get_metadata(entity, identifier) for an integer identifier:
\* data[identifier] of the dict named entity + 's', KeyError when it is absent.
get_metadata(entity, identifier) ==
    LET data == CASE entity = "region" -> regions
                  [] entity = "system" -> systems
                  [] entity = "station" -> stations
                  [] entity = "market_type" -> market_types
    IN  IF identifier \in DOMAIN data
        THEN [raises |-> FALSE, metadata |-> data[identifier]]
        ELSE [raises |-> TRUE, metadata |-> NoAttrs]

---------------------------------------------------------------------------
(* place._Location, Region, System, Station and trade.TradeItem *)

\* The entity classes, by the entity name they pass to get_metadata.
PlaceClasses == {"region", "system", "station"}

Classes == PlaceClasses \cup {"market_type"}

\* cls._table: the table get_id queries for the class.
Table(cls) ==
    CASE cls = "region" -> mapRegions
      [] cls = "system" -> mapSolarSystems
      [] cls = "station" -> staStations
      [] cls = "market_type" -> invTypes

\* An identifier given to a constructor: an int (the id) or a str (the name).
IntIdent(id) == [kind |-> "int", id |-> id, name |-> ""]

StrIdent(name) == [kind |-> "str", id |-> 0, name |-> name]

\* The identifiers the constructors are called with: ids and names the static
\* data knows, an id it does not know, a type without a market group, and a
\* name no row has.
Idents(cls) ==
    CASE cls = "region" ->
            {IntIdent(10), IntIdent(20), IntIdent(99), StrIdent("The Forge"),
             StrIdent("Nowhere")}
      [] cls = "system" -> {IntIdent(31), StrIdent("Jita")}
      [] cls = "station" -> {IntIdent(311), IntIdent(321)}
      [] cls = "market_type" -> {IntIdent(34), StrIdent("Unmarketed")}

\* A variant that answers id 0 when no row has the name.
get_id_or_zero(cls, name) ==
    LET rows == {row \in Table(cls) : row.name = name}
    IN  [raises |-> FALSE,
         id |-> IF rows = {} THEN 0 ELSE (CHOOSE row \in rows : TRUE).id]

\* cls.get_id(name): the id column of the row fetchone() gives; with no row
\* fetchone() gives None and getattr raises AttributeError.
get_id(cls, name) ==
    LET rows == {row \in Table(cls) : row.name = name}
    IN  IF rows = {}
        THEN [raises |-> TRUE, id |-> 0]
        ELSE [raises |-> FALSE, id |-> (CHOOSE row \in rows : TRUE).id]

\* A variant of __new__ that creates an instance without looking into the cache.
NewResultUncached(cache, n, cls, ident) ==
    LET looked == IF ident.kind = "int"
                  THEN [raises |-> FALSE, id |-> ident.id]
                  ELSE get_id(cls, ident.name)
        md == get_metadata(cls, looked.id)
    IN  IF looked.raises
        THEN [outcome |-> "AttributeError", cache |-> cache, made |-> n, id |-> 0,
              obj |-> 0, hit |-> FALSE, fetched_metadata |-> FALSE]
        ELSE IF md.raises
        THEN [outcome |-> "KeyError",
              cache |-> [cache EXCEPT ![cls] =
                            SetItem(@, looked.id, [obj |-> n + 1, attrs |-> NoAttrs])],
              made |-> n + 1, id |-> looked.id,
              obj |-> 0, hit |-> FALSE, fetched_metadata |-> TRUE]
        ELSE [outcome |-> "ok",
              cache |-> [cache EXCEPT ![cls] =
                            SetItem(@, looked.id, [obj |-> n + 1, attrs |-> md.metadata])],
              made |-> n + 1, id |-> looked.id,
              obj |-> n + 1, hit |-> FALSE, fetched_metadata |-> TRUE]

\* _Location.__new__(cls, ident) and StaticEntity.__new__(cls, ident), with the
\* class caches `cache` and n instances created so far: the outcome, the caches
\* and the count afterwards, the id the identifier resolved to, the serial
\* number of the instance returned, whether the cache had it, and whether
\* get_metadata was called. The new instance is put into the cache before its
\* metadata is fetched, so it stays there without attributes when that fails.
NewResult(cache, n, cls, ident) ==
    LET looked == IF ident.kind = "int"
                  THEN [raises |-> FALSE, id |-> ident.id]
                  ELSE get_id(cls, ident.name)
        md == get_metadata(cls, looked.id)
    IN  IF looked.raises
        THEN [outcome |-> "AttributeError", cache |-> cache, made |-> n, id |-> 0,
              obj |-> 0, hit |-> FALSE, fetched_metadata |-> FALSE]
        ELSE IF looked.id \in DOMAIN cache[cls]
        THEN [outcome |-> "ok", cache |-> cache, made |-> n, id |-> looked.id,
              obj |-> cache[cls][looked.id].obj, hit |-> TRUE,
              fetched_metadata |-> FALSE]
        ELSE IF md.raises
        THEN [outcome |-> "KeyError",
              cache |-> [cache EXCEPT ![cls] =
                            SetItem(@, looked.id, [obj |-> n + 1, attrs |-> NoAttrs])],
              made |-> n + 1, id |-> looked.id,
              obj |-> 0, hit |-> FALSE, fetched_metadata |-> TRUE]
        ELSE [outcome |-> "ok",
              cache |-> [cache EXCEPT ![cls] =
                            SetItem(@, looked.id, [obj |-> n + 1, attrs |-> md.metadata])],
              made |-> n + 1, id |-> looked.id,
              obj |-> n + 1, hit |-> FALSE, fetched_metadata |-> TRUE]

\* cls(ident) for an entity class.
__new__(cls, ident) ==
    /\ pcalls < MaxPlaceCalls
    /\ LET res == NewResult(_cache, made, cls, ident)
       IN  /\ _cache' = res.cache
           /\ made' = res.made
           /\ held' = IF res.outcome = "ok" THEN held \cup {res.obj} ELSE held
           /\ plast' = [op |-> "__new__", cls |-> cls, id |-> res.id, ident |-> ident,
                        outcome |-> res.outcome, obj |-> res.obj, hit |-> res.hit,
                        fetched_metadata |-> res.fetched_metadata,
                        type_id |-> 0, fetched |-> [raises |-> FALSE, records |-> <<>>],
                        tstamp |-> 0, retval |-> <<>>]
    /\ pcalls' = pcalls + 1
    /\ UNCHANGED <<marketVars, versionedVars, orderVars, threadVars, makerVars>>

\* Whether the instance has the attribute.
HasAttr(self, attr) == attr \in DOMAIN self.attrs

\* The end of a cached property: res is what the parent's constructor gave; when
\* it returned, the property's value is kept on the instance as attribute attr.
ParentFound(res, cls, key, attr) ==
    IF res.outcome # "ok"
    THEN [outcome |-> res.outcome, cache |-> res.cache, made |-> res.made, id |-> 0]
    ELSE [outcome |-> "ok",
          cache |-> [res.cache EXCEPT ![cls][key].attrs = SetItem(@, attr, res.id)],
          made |-> res.made, id |-> res.id]

\* The cached property named attr of the instance cache[cls][key] that is the
\* entity of class parent with the id in the instance's attribute id_attr
\* (RegionDescendant.region, Station.system): the outcome, the caches and the
\* count afterwards, and the cache key of the entity. Reading an attribute the
\* instance lacks raises AttributeError.
ParentProperty(cache, n, cls, key, attr, parent, id_attr) ==
    IF HasAttr(cache[cls][key], attr)
    THEN [outcome |-> "ok", cache |-> cache, made |-> n,
          id |-> cache[cls][key].attrs[attr]]
    ELSE IF ~HasAttr(cache[cls][key], id_attr)
    THEN [outcome |-> "AttributeError", cache |-> cache, made |-> n, id |-> 0]
    ELSE ParentFound(NewResult(cache, n, parent, IntIdent(cache[cls][key].attrs[id_attr])),
                     cls, key, attr)

\* RegionDescendant.region: Region(self.region_id), computed once.
region(cache, n, cls, key) ==
    ParentProperty(cache, n, cls, key, "_cached_region", "region", "region_id")

\* Station.system: System(self.system_id), computed once.
system(cache, n, cls, key) ==
    ParentProperty(cache, n, cls, key, "_cached_system", "system", "system_id")

\* A path that could not be made, and one that could.
NoPath(what, cache, n) ==
    [outcome |-> what, cache |-> cache, made |-> n, path |-> <<>>]

PathMade(cache, n, path) ==
    [outcome |-> "ok", cache |-> cache, made |-> n, path |-> path]

\* [self.id], after the entries `above` that were read before it.
PathWithId(cache, n, cls, key, above) ==
    IF HasAttr(cache[cls][key], "id")
    THEN PathMade(cache, n, above \o <<cache[cls][key].attrs.id>>)
    ELSE NoPath("AttributeError", cache, n)

\* Station._market_path from self.system.id on: sy is what self.system gave.
PathFromSystem(sy, cls, key, above) ==
    IF sy.outcome # "ok" THEN NoPath(sy.outcome, sy.cache, sy.made)
    ELSE IF ~HasAttr(sy.cache["system"][sy.id], "id")
    THEN NoPath("AttributeError", sy.cache, sy.made)
    ELSE PathWithId(sy.cache, sy.made, cls, key,
                    above \o <<sy.cache["system"][sy.id].attrs.id>>)

\* System._market_path and Station._market_path from self.region.id on: r is
\* what self.region gave.
PathFromRegion(r, cls, key) ==
    IF r.outcome # "ok" THEN NoPath(r.outcome, r.cache, r.made)
    ELSE IF ~HasAttr(r.cache["region"][r.id], "id")
    THEN NoPath("AttributeError", r.cache, r.made)
    ELSE IF cls = "system"
    THEN PathWithId(r.cache, r.made, cls, key, <<r.cache["region"][r.id].attrs.id>>)
    ELSE PathFromSystem(system(r.cache, r.made, cls, key), cls, key,
                        <<r.cache["region"][r.id].attrs.id>>)

\* self._market_path of the instance cache[cls][key]: [self.id] for a Region,
\* [self.region.id, self.id] for a System, [self.region.id, self.system.id,
\* self.id] for a Station, read left to right.
_market_path(cache, n, cls, key) ==
    IF cls = "region"
    THEN PathWithId(cache, n, cls, key, <<>>)
    ELSE PathFromRegion(region(cache, n, cls, key), cls, key)

\* The keys of a dict, as a list. (The model's dicts keep no insertion order:
\* they are iterated by ascending key.)
RECURSIVE SortedKeys(_)
SortedKeys(S) ==
    IF S = {} THEN <<>>
    ELSE LET least == CHOOSE x \in S : \A y \in S : x <= y
         IN  <<least>> \o SortedKeys(S \ {least})

\* descend(node) of lines 63-69, over the keys of node still to visit: the
\* (key, order) pairs it yields. A node reached through `level` keys holds lists
\* when it is a station node (level 3), and dicts otherwise.
RECURSIVE descend(_, _, _)
descend(node, level, keys) ==
    IF keys = <<>> THEN <<>>
    ELSE LET key == Head(keys)
             value == node[key]
         IN  (IF level = 3
              THEN [j \in 1..Len(value) |-> <<key, value[j]>>]
              ELSE descend(value, level + 1, SortedKeys(DOMAIN value)))
             \o descend(node, level, Tail(keys))

\* Lines 71-74: the pairs collected into a dict of lists, by type_id.
Collected(pairs) ==
    [T \in {pairs[i][1] : i \in 1..Len(pairs)} |->
        LET mine == SelectSeq(pairs, LAMBDA pair : pair[1] = T)
        IN  [j \in 1..Len(mine) |-> mine[j][2]]]

\* What a call on an instance leaves in plast.
CallRecord(op, cls, key, outcome, type_id, fetched, tstamp, retval) ==
    [op |-> op, cls |-> cls, id |-> key, ident |-> IntIdent(0),
     outcome |-> outcome, obj |-> _cache[cls][key].obj, hit |-> FALSE,
     fetched_metadata |-> FALSE, type_id |-> type_id, fetched |-> fetched,
     tstamp |-> tstamp, retval |-> retval]

\* The orders dict of the market node at path.
OrdersAt(d, path) ==
    Collected(descend(Lookup(d, path, 1), Len(path),
                      SortedKeys(DOMAIN Lookup(d, path, 1))))

\* self.orders, once self._market_path gave p.
OrdersWithPath(p, cls, key) ==
    /\ _cache' = p.cache
    /\ made' = p.made
    /\ IF p.outcome = "ok"
       THEN /\ _data' = Vivified(_data, p.path, 1)
            /\ plast' = CallRecord("orders", cls, key, "ok", 0,
                            [raises |-> FALSE, records |-> <<>>], 0,
                            OrdersAt(_data, p.path))
       ELSE /\ _data' = _data
            /\ plast' = CallRecord("orders", cls, key, p.outcome, 0,
                            [raises |-> FALSE, records |-> <<>>], 0, <<>>)

\* self.orders on the instance cached under key: market_node indexes the market
\* along the path (and so inserts what is absent), descend collects the lists.
orders(cls, key) ==
    /\ pcalls < MaxPlaceCalls
    /\ cls \in PlaceClasses /\ key \in DOMAIN _cache[cls]
    /\ _cache[cls][key].obj \in held
    /\ OrdersWithPath(_market_path(_cache, made, cls, key), cls, key)
    /\ pcalls' = pcalls + 1
    /\ UNCHANGED <<last, calls, held, versionedVars, orderVars, threadVars, makerVars>>

\* Market.update(region_id, type_id) as Region.update_market calls it.
MarketUpdated(res, cls, key, type_id, fetched, tstamp) ==
    /\ _data' = res.d
    /\ plast' = CallRecord("update_market", cls, key,
                    IF res.raised = 0 THEN "ok"
                    ELSE IF res.raised = -1 THEN "BadResponse" ELSE "KeyError",
                    type_id, fetched, tstamp, <<>>)

\* Region.update_market(type_id) on the region r names (the instance itself,
\* or what self.region gave).
UpdateRegion(r, cls, key, type_id, fetched, tstamp) ==
    /\ _cache' = r.cache
    /\ made' = r.made
    /\ IF r.outcome # "ok"
       THEN /\ _data' = _data
            /\ plast' = CallRecord("update_market", cls, key, r.outcome,
                                   type_id, fetched, tstamp, <<>>)
       ELSE IF ~HasAttr(r.cache["region"][r.id], "id")
       THEN /\ _data' = _data
            /\ plast' = CallRecord("update_market", cls, key, "AttributeError",
                                   type_id, fetched, tstamp, <<>>)
       ELSE MarketUpdated(UpdateResult(_data, r.cache["region"][r.id].attrs.id,
                                       fetched, tstamp),
                          cls, key, type_id, fetched, tstamp)

\* self.update_market(type_id) on the instance cached under key: a Region
\* calls Market.update(self.id, type_id), a System or Station calls
\* self.region.update_market(type_id). fetched and tstamp are what the feed and
\* the clock answer if the call gets as far as asking them.
update_market(cls, key, type_id, fetched, tstamp) ==
    /\ pcalls < MaxPlaceCalls
    /\ cls \in PlaceClasses /\ key \in DOMAIN _cache[cls]
    /\ _cache[cls][key].obj \in held
    /\ Fetch(type_id, fetched)
    /\ UpdateRegion(IF cls = "region"
                    THEN [outcome |-> "ok", cache |-> _cache, made |-> made, id |-> key]
                    ELSE region(_cache, made, cls, key),
                    cls, key, type_id, fetched, tstamp)
    /\ pcalls' = pcalls + 1
    /\ UNCHANGED <<last, calls, held, versionedVars, orderVars, threadVars, makerVars>>

NextPlace ==
    \/ \E cls \in Classes : \E ident \in Idents(cls) : __new__(cls, ident)
    \/ \E cls \in PlaceClasses : \E key \in DOMAIN _cache[cls] : orders(cls, key)
    \/ \E cls \in PlaceClasses : \E key \in DOMAIN _cache[cls] :
          \E type_id \in TypeIds \cup {None}, fetched \in FetchOutcomes, tstamp \in Times :
              update_market(cls, key, type_id, fetched, tstamp)

SpecPlace == Init /\ [][NextPlace]_vars

---------------------------------------------------------------------------
(* What the claims about the entities speak of. *)

\* The step is a call of a constructor / of the method named op on an instance
\* that has its metadata.
NewStep == pcalls' = pcalls + 1 /\ plast'.op = "__new__"

MethodStep(op) ==
    /\ pcalls' = pcalls + 1 /\ plast'.op = op
    /\ HasAttr(_cache[plast'.cls][plast'.id], "id")

\* The rows of the class's table that have the name.
RowsNamed(cls, name) == {row \in Table(cls) : row.name = name}

\* The id an identifier stands for: itself, or the id of the row of that name.
ResolvedId(cls, ident) ==
    IF ident.kind = "int" THEN ident.id
    ELSE (CHOOSE row \in RowsNamed(cls, ident.name) : TRUE).id

\* C15: over any sequence of constructions, a construction that returns gives
\* the one instance the class's cache holds under the id its identifier (an int
\* or a name) resolves to; an instance once cached stays cached under its id as
\* it is, no instance is cached under two ids, and a construction whose id is
\* in the cache returns that instance without creating one and without
\* fetching metadata.
C15_OneInstancePerId ==
    [][NewStep =>
        LET cls == plast'.cls
            id == ResolvedId(cls, plast'.ident)
        IN  /\ \A c \in Classes : \A i \in DOMAIN _cache[c] :
                    i \in DOMAIN _cache'[c] /\ _cache'[c][i] = _cache[c][i]
            /\ \A c \in Classes : \A i, j \in DOMAIN _cache'[c] :
                    i # j => _cache'[c][i].obj # _cache'[c][j].obj
            /\ plast'.outcome = "ok" =>
                    /\ id \in DOMAIN _cache'[cls]
                    /\ plast'.obj = _cache'[cls][id].obj
            /\ (plast'.outcome = "ok" /\ id \in DOMAIN _cache[cls]) =>
                    /\ plast'.obj = _cache[cls][id].obj
                    /\ made' = made
                    /\ ~plast'.fetched_metadata]_vars

\* C15's case: Region("The Forge") returned the instance an earlier
\* construction had created for id 10, the only instance created, and fetched
\* no metadata.
C15_Witness ==
    /\ plast.op = "__new__" /\ plast.outcome = "ok" /\ plast.hit
    /\ plast.cls = "region" /\ plast.ident = StrIdent("The Forge")
    /\ made = 1 /\ pcalls = 3
    /\ plast.obj = _cache["region"][10].obj
    /\ ~plast.fetched_metadata

\* C16: a construction by a name that no row of the class's table has fails
\* with an exception, and the class caches are as they were: no instance is
\* created or cached.
C16_UnknownNameFails ==
    [][(NewStep /\ plast'.ident.kind = "str"
            /\ RowsNamed(plast'.cls, plast'.ident.name) = {}) =>
        /\ plast'.outcome = "AttributeError"
        /\ _cache' = _cache
        /\ made' = made]_vars

\* C16's case: Region("Nowhere") failed while the cache held a region.
C16_Witness ==
    /\ plast.op = "__new__" /\ plast.outcome = "AttributeError"
    /\ plast.cls = "region" /\ plast.ident = StrIdent("Nowhere")
    /\ DOMAIN _cache["region"] = {10}
    /\ made = 1

\* The region a system or a station lies in, and the system of a station, by
\* the tables.
RegionOfSystem(id) == Row(mapSolarSystems, id).regionID

SystemOfStation(id) == Row(staStations, id).solarSystemID

\* The market path of the entity: its own id below those of its parents.
EntityPath(cls, id) ==
    CASE cls = "region" -> <<id>>
      [] cls = "system" -> <<RegionOfSystem(id), id>>
      [] cls = "station" -> <<RegionOfSystem(SystemOfStation(id)), SystemOfStation(id), id>>

\* The paths of the lists of type T in the subtree of d at prefix.
ListsBelow(d, prefix, T) ==
    {p \in PathsOf(d) : p[4] = T /\ \A i \in 1..Len(prefix) : p[i] = prefix[i]}

\* How often x occurs in a list, and in the lists of d at the paths.
Occurrences(x, list) == Cardinality({i \in 1..Len(list) : list[i] = x})

RECURSIVE OccurrencesAt(_, _, _)
OccurrencesAt(x, d, paths) ==
    IF paths = {} THEN 0
    ELSE LET p == CHOOSE q \in paths : TRUE
         IN  Occurrences(x, ListAt(d, p)) + OccurrencesAt(x, d, paths \ {p})

\* The snapshots in the lists of d.
SnapshotsIn(d) ==
    UNION {{ListAt(d, p)[i] : i \in 1..Len(ListAt(d, p))} : p \in PathsOf(d)}

\* C17: the orders property of an entity returns, by type_id, the snapshots of
\* all lists in the cache subtree at the entity's market path: every snapshot
\* as often as the subtree's lists of that type hold it, none from elsewhere.
C17_OrdersAreTheSubtree ==
    [][MethodStep("orders") =>
        /\ plast'.outcome = "ok"
        /\ \A T \in TypeIds : \A x \in SnapshotsIn(_data) :
                Occurrences(x, GetItem(plast'.retval, T, <<>>)) =
                    OccurrencesAt(x, _data,
                        ListsBelow(_data, EntityPath(plast'.cls, plast'.id), T))
        /\ DOMAIN plast'.retval \subseteq TypeIds]_vars

\* C18: update_market(type_id) on a System or a Station does to the market
\* what Market.update does for the region it lies in, with the same answer of
\* the feed.
C18_DelegatedToRegion ==
    [][(MethodStep("update_market") /\ plast'.cls \in {"system", "station"}) =>
        /\ plast'.outcome # "AttributeError"
        /\ _data' = UpdateResult(_data, EntityPath(plast'.cls, plast'.id)[1],
                                 plast'.fetched, plast'.tstamp).d]_vars

---------------------------------------------------------------------------
(* util.parse_epoch_timestamp and trade.SimpleMarketOrder: issued, duration, expiry *)

\* An integer timestamp is written [neg, hi, lo] for +-(hi * 1000 + lo), lo in
\* 0..999, so that thirteen-digit values stay within the integers at hand. A
\* count of seconds is written [k, r] for k * 1000 + r, r in 0..999, and a UTC
\* datetime [k, r, us]: that count of seconds since the epoch, and us microseconds.

\* The timestamps the issued field is drawn from: a few seconds, the seconds and
\* the milliseconds of dates from 2001 to 2038, and the ends of datetime's range.
EpochThousands ==
    {0, 5, 1000000, 1530556, 62135596, 100000000, 253402300, 999999999,
     1000000000, 1530556413}

EpochUnits == {0, 5, 413, 799, 800, 999}

Epochs ==
    {[kind |-> "int", neg |-> n, hi |-> h, lo |-> l] :
        n \in BOOLEAN, h \in EpochThousands, l \in EpochUnits}
    \ {[kind |-> "int", neg |-> TRUE, hi |-> 0, lo |-> 0]}

\* The data dicts of the orders: issued, and duration unless it is missing.
Durations == {0, 1, 90}

OrderDicts ==
    {[issued |-> ts] : ts \in Epochs}
    \cup {[issued |-> ts, duration |-> d] : ts \in Epochs, d \in Durations}

\* How often the function issued wraps is let run on one order.
MaxFgetCalls == 2

\* The zones the machine's local time can be set to, in hours east of UTC.
LocalZones == {0 - 5, 0, 1}

\* The UTC offset a date-time string carries, if it carries one.
NoOffset == [given |-> FALSE, hours |-> 0]

Offset(hours) == [given |-> TRUE, hours |-> hours]

\* Date-time strings: "2018-05-29T18:22:34" (1527618154 seconds after the
\* epoch when read in UTC) with no offset, with +0000 and with +0100.
IsoStrings ==
    {[kind |-> "str", text |-> "iso", wall |-> [k |-> 1527618, r |-> 154, us |-> 0],
      offset |-> o] : o \in {NoOffset, Offset(0), Offset(1)}}

\* Strings of digits: "1530556413", "1530556413413" and "999999999999", whose
\* digits name no calendar date either.
DigitStrings ==
    {[kind |-> "str", text |-> "digits", neg |-> FALSE, hi |-> 1530556, lo |-> 413],
     [kind |-> "str", text |-> "digits", neg |-> FALSE, hi |-> 1530556413, lo |-> 413],
     [kind |-> "str", text |-> "digits", neg |-> FALSE, hi |-> 999999999, lo |-> 999]}

\* A string that is neither.
JunkStrings == {[kind |-> "str", text |-> "junk"]}

\* pyswagger.primitives.Datetime objects, with the datetime in their v.
DatetimePrimitives ==
    {[kind |-> "Datetime", v |-> [k |-> 1527618, r |-> 154, us |-> 0]]}

\* The same three numbers as ints.
IssuedInts ==
    {[kind |-> "int", neg |-> FALSE, hi |-> 1530556, lo |-> 413],
     [kind |-> "int", neg |-> FALSE, hi |-> 1530556413, lo |-> 413],
     [kind |-> "int", neg |-> FALSE, hi |-> 999999999, lo |-> 999]}

\* The values data['issued'] takes across the sources of orders.
IssuedValues ==
    DatetimePrimitives \cup IssuedInts \cup DigitStrings \cup IsoStrings
    \cup JunkStrings

IssuedDicts == {[issued |-> v, duration |-> 1] : v \in IssuedValues}

\* Whether int(timestamp) takes the value.
IntegerLike(raw) ==
    raw.kind = "int" \/ (raw.kind = "str" /\ raw.text = "digits")

\* The number of decimal digits of a natural number.
RECURSIVE Digits(_)
Digits(n) == IF n < 10 THEN 1 ELSE 1 + Digits(n \div 10)

\* len(str(timestamp)): the digits, and the minus sign of a negative value.
StrLen(ts) ==
    (IF ts.neg THEN 1 ELSE 0)
    + (IF ts.hi = 0 THEN Digits(ts.lo) ELSE Digits(ts.hi) + 3)

\* int(timestamp) as [k, r]: k is int(timestamp) // 1000 and r is
\* int(timestamp) % 1000, with Python's floor division.
IntOf(ts) ==
    IF ~ts.neg THEN [k |-> ts.hi, r |-> ts.lo]
    ELSE IF ts.lo = 0 THEN [k |-> 0 - ts.hi, r |-> 0]
    ELSE [k |-> 0 - ts.hi - 1, r |-> 1000 - ts.lo]

\* Whether datetime can hold the second [k, r]: from 0001-01-01T00:00:00Z
\* (-62135596800) to 9999-12-31T23:59:59Z (253402300799).
InDatetimeRange(k, r) ==
    /\ k > -62135597 \/ (k = -62135597 /\ r >= 200)
    /\ k < 253402300 \/ (k = 253402300 /\ r <= 799)

\* datetime.fromtimestamp(s, pytz.UTC).replace(microsecond=us) for s = [k, r]:
\* ValueError when the year is out of range.
fromtimestamp(k, r, us) ==
    IF InDatetimeRange(k, r)
    THEN [outcome |-> "ok", value |-> [k |-> k, r |-> r, us |-> us]]
    ELSE [outcome |-> "ValueError", value |-> [k |-> 0, r |-> 0, us |-> 0]]

\* A variant that takes twelve characters for milliseconds already.
parse_epoch_timestamp_12(ts) ==
    IF StrLen(ts) >= 12
    THEN fromtimestamp(IntOf(ts).k \div 1000, IntOf(ts).k % 1000, IntOf(ts).r * 1000)
    ELSE fromtimestamp(IntOf(ts).k, IntOf(ts).r, 0)

\* util.parse_epoch_timestamp(timestamp): with 13 characters or more
\* s = int(timestamp) // 1000 and us = int(timestamp) % 1000 * 1000, else
\* s = int(timestamp) and us = 0. int raises ValueError on a string that is
\* no integer.
parse_epoch_timestamp(ts) ==
    IF ~IntegerLike(ts)
    THEN [outcome |-> "ValueError", value |-> [k |-> 0, r |-> 0, us |-> 0]]
    ELSE IF StrLen(ts) >= 13
    THEN fromtimestamp(IntOf(ts).k \div 1000, IntOf(ts).k % 1000, IntOf(ts).r * 1000)
    ELSE fromtimestamp(IntOf(ts).k, IntOf(ts).r, 0)

\* The datetime `hours` hours before t.
HoursBefore(t, hours) ==
    [k |-> t.k - 3 * hours + ((t.r - 600 * hours) \div 1000),
     r |-> (t.r - 600 * hours) % 1000, us |-> t.us]

\* dt.astimezone(pytz.utc) of the datetime parser.parse gave: an aware one is
\* moved by its own offset, a naive one is presumed to be in the local time of
\* the machine (Python 3.6 and later).
astimezone_utc(wall, offset, tz) ==
    HoursBefore(wall, IF offset.given THEN offset.hours ELSE tz)

\* util.parse_datetime(obj) on a machine in the zone tz: parser.parse raises
\* TypeError on what is no string and ValueError on a string it cannot read.
parse_datetime(obj, tz) ==
    IF obj.kind # "str"
    THEN [outcome |-> "TypeError", value |-> [k |-> 0, r |-> 0, us |-> 0]]
    ELSE IF obj.text = "iso"
    THEN [outcome |-> "ok", value |-> astimezone_utc(obj.wall, obj.offset, tz)]
    ELSE [outcome |-> "ValueError", value |-> [k |-> 0, r |-> 0, us |-> 0]]

\* A variant without the except clause of lines 88-89.
issued_fget_epoch_only(data, tz) ==
    IF data.issued.kind = "Datetime"
    THEN [outcome |-> "ok", value |-> data.issued.v]
    ELSE parse_epoch_timestamp(data.issued)

\* The function issued wraps: timestamp.v for a pyswagger Datetime, else
\* parse_epoch_timestamp, and when that raises ValueError parse_datetime.
issued_fget(data, tz) ==
    IF data.issued.kind = "Datetime"
    THEN [outcome |-> "ok", value |-> data.issued.v]
    ELSE IF parse_epoch_timestamp(data.issued).outcome = "ValueError"
    THEN parse_datetime(data.issued, tz)
    ELSE parse_epoch_timestamp(data.issued)

\* A variant that runs the wrapped function on every access.
issued_result_recomputed(o, tz) ==
    IF issued_fget(o.data, tz).outcome = "ok"
    THEN [outcome |-> "ok", value |-> issued_fget(o.data, tz).value,
          order |-> [o EXCEPT !._cached_issued =
                        [set |-> TRUE, value |-> issued_fget(o.data, tz).value]],
          computed |-> TRUE]
    ELSE [outcome |-> issued_fget(o.data, tz).outcome,
          value |-> [k |-> 0, r |-> 0, us |-> 0], order |-> o, computed |-> TRUE]

\* self.issued, a cached_property: the value kept in _cached_issued when there
\* is one, else the value computed now; and the order afterwards, which keeps
\* a value that was computed.
issued_result(o, tz) ==
    IF o._cached_issued.set
    THEN [outcome |-> "ok", value |-> o._cached_issued.value, order |-> o,
          computed |-> FALSE]
    ELSE IF issued_fget(o.data, tz).outcome = "ok"
    THEN [outcome |-> "ok", value |-> issued_fget(o.data, tz).value,
          order |-> [o EXCEPT !._cached_issued =
                        [set |-> TRUE, value |-> issued_fget(o.data, tz).value]],
          computed |-> TRUE]
    ELSE [outcome |-> issued_fget(o.data, tz).outcome,
          value |-> [k |-> 0, r |-> 0, us |-> 0], order |-> o, computed |-> TRUE]

\* A variant that adds the duration as hours.
HoursLater(t, n) ==
    LET r2 == t.r + 600 * n
        k2 == t.k + 3 * n + r2 \div 1000
    IN  IF InDatetimeRange(k2, r2 % 1000)
        THEN [outcome |-> "ok", value |-> [k |-> k2, r |-> r2 % 1000, us |-> t.us]]
        ELSE [outcome |-> "OverflowError", value |-> [k |-> 0, r |-> 0, us |-> 0]]

\* t + util.tdelta(days=n): the datetime n days (of 86400 seconds) later,
\* OverflowError when it is past datetime's range.
DaysLater(t, n) ==
    LET r2 == t.r + 400 * n
        k2 == t.k + 86 * n + r2 \div 1000
    IN  IF InDatetimeRange(k2, r2 % 1000)
        THEN [outcome |-> "ok", value |-> [k |-> k2, r |-> r2 % 1000, us |-> t.us]]
        ELSE [outcome |-> "OverflowError", value |-> [k |-> 0, r |-> 0, us |-> 0]]

\* self.expiry once self.issued gave iss: self.duration is self['duration'],
\* KeyError when the data has no such key.
expiry_from(iss, data) ==
    IF iss.outcome # "ok" THEN [outcome |-> iss.outcome, value |-> iss.value]
    ELSE IF "duration" \notin DOMAIN data
    THEN [outcome |-> "KeyError", value |-> [k |-> 0, r |-> 0, us |-> 0]]
    ELSE DaysLater(iss.value, data.duration)

\* SimpleMarketOrder(data=data)
SimpleMarketOrder(data) ==
    /\ ~order.made
    /\ order' = [made |-> TRUE, data |-> data,
                 _cached_issued |-> [set |-> FALSE, value |-> [k |-> 0, r |-> 0, us |-> 0]]]
    /\ olast' = [op |-> "__init__", outcome |-> "ok",
                 value |-> [k |-> 0, r |-> 0, us |-> 0], tz |-> 0]
    /\ UNCHANGED fget_calls
    /\ UNCHANGED <<marketVars, versionedVars, placeVars, threadVars, makerVars>>

\* The wrapped function runs when no value is kept yet.
FgetCounted(o) ==
    /\ o._cached_issued.set \/ fget_calls < MaxFgetCalls
    /\ fget_calls' = IF o._cached_issued.set THEN fget_calls ELSE fget_calls + 1

\* A read of order.issued, on a machine in the zone tz.
issued(tz) ==
    /\ order.made
    /\ FgetCounted(order)
    /\ order' = issued_result(order, tz).order
    /\ olast' = [op |-> "issued", outcome |-> issued_result(order, tz).outcome,
                 value |-> issued_result(order, tz).value, tz |-> tz]
    /\ UNCHANGED <<marketVars, versionedVars, placeVars, threadVars, makerVars>>

\* A read of order.expiry: self.issued + util.tdelta(days=self.duration).
expiry(tz) ==
    /\ order.made
    /\ FgetCounted(order)
    /\ order' = issued_result(order, tz).order
    /\ olast' = [op |-> "expiry",
                 outcome |-> expiry_from(issued_result(order, tz), order.data).outcome,
                 value |-> expiry_from(issued_result(order, tz), order.data).value,
                 tz |-> tz]
    /\ UNCHANGED <<marketVars, versionedVars, placeVars, threadVars, makerVars>>

\* order.data['issued'] = value, by whoever holds the dict the order was built
\* from: self.data is that dict itself.
data_setitem(value) ==
    /\ order.made
    /\ value # order.data.issued
    /\ order' = [order EXCEPT !.data.issued = value]
    /\ olast' = [op |-> "data_setitem", outcome |-> "ok",
                 value |-> [k |-> 0, r |-> 0, us |-> 0], tz |-> 0]
    /\ UNCHANGED fget_calls
    /\ UNCHANGED <<marketVars, versionedVars, placeVars, threadVars, makerVars>>

NextOrder ==
    \/ \E data \in OrderDicts : SimpleMarketOrder(data)
    \/ \E tz \in LocalZones : issued(tz)
    \/ \E tz \in LocalZones : expiry(tz)

\* Orders with integer timestamps, as EveKit supplies them.
SpecOrder == Init /\ [][NextOrder]_vars

NextIssued ==
    \/ \E data \in IssuedDicts : SimpleMarketOrder(data)
    \/ \E tz \in LocalZones : issued(tz)
    \/ \E tz \in LocalZones : expiry(tz)
    \/ \E value \in IssuedValues : data_setitem(value)

\* Orders from every source, whose data the caller may change.
SpecIssued == Init /\ [][NextIssued]_vars

---------------------------------------------------------------------------
(* What the claims about the simple order speak of. *)

\* The number of decimal digits of the timestamp, its sign aside.
DecimalDigits(ts) ==
    IF ts.hi = 0 THEN Digits(ts.lo) ELSE Digits(ts.hi) + 3

\* The UTC datetime the timestamp stands for when it counts the unit
\* ("ms" or "s"), if datetime has it.
ReadAs(unit, ts) ==
    LET v == IntOf(ts)
        t == IF unit = "ms"
             THEN [k |-> v.k \div 1000, r |-> v.k % 1000, us |-> v.r * 1000]
             ELSE [k |-> v.k, r |-> v.r, us |-> 0]
    IN  [known |-> InDatetimeRange(t.k, t.r), value |-> t]

\* issued gave the datetime that reading the timestamp in the unit gives, and
\* failed if datetime has none for it.
IssuedReadAs(unit, ts) ==
    IF ReadAs(unit, ts).known
    THEN olast.outcome = "ok" /\ olast.value = ReadAs(unit, ts).value
    ELSE olast.outcome # "ok"

\* Whether m * 1000 can be written, and how.
HasThousandfold(ts) == ts.hi <= 2147482

Thousandfold(ts) ==
    [kind |-> "int", neg |-> ts.neg, hi |-> ts.hi * 1000 + ts.lo, lo |-> 0]

\* The value of issued on a new order with this integer timestamp (where the
\* machine is plays no part in it).
IssuedOf(ts) == issued_fget([issued |-> ts], 0)

\* C19 as stated: issued reads any integer timestamp of 13 or more decimal
\* digits as milliseconds and any of fewer as seconds, and so gives m * 1000
\* and m the same instant.
C19_DigitsDecideUnit ==
    olast.op = "issued" =>
        LET m == order.data.issued
        IN  /\ IssuedReadAs(IF DecimalDigits(m) >= 13 THEN "ms" ELSE "s", m)
            /\ HasThousandfold(m) =>
                    /\ olast.outcome = "ok"
                    /\ IssuedOf(Thousandfold(m)) = [outcome |-> "ok", value |-> olast.value]

\* C19: issued reads an integer timestamp as milliseconds when str(timestamp)
\* has 13 characters or more (the digits, and the sign of a negative value) and
\* as seconds when it has fewer, and fails when datetime cannot hold the
\* instant; so for a count of seconds m of 10 to 12 digits that datetime can
\* hold, m * 1000 and m give the same instant.
C19_LengthDecidesUnit ==
    olast.op = "issued" =>
        LET m == order.data.issued
        IN  /\ IssuedReadAs(IF StrLen(m) >= 13 THEN "ms" ELSE "s", m)
            /\ (/\ ~m.neg /\ DecimalDigits(m) \in 10..12
                /\ HasThousandfold(m) /\ ReadAs("s", m).known) =>
                    /\ olast.outcome = "ok"
                    /\ IssuedOf(Thousandfold(m)) = [outcome |-> "ok", value |-> olast.value]

\* C19's case: issued read 1530556413 as seconds, which is the instant it
\* gives for 1530556413000.
C19_Witness ==
    /\ olast.op = "issued" /\ olast.outcome = "ok"
    /\ order.data.issued = [kind |-> "int", neg |-> FALSE, hi |-> 1530556, lo |-> 413]
    /\ olast.value = [k |-> 1530556, r |-> 413, us |-> 0]
    /\ IssuedOf(Thousandfold(order.data.issued)).value = olast.value

\* The seconds from datetime a to datetime b.
SecondsBetween(a, b) == (b.k - a.k) * 1000 + (b.r - a.r)

\* C20: whenever expiry gives a value, it is the value of issued moved on by
\* duration days of 86400 seconds, to the microsecond; and it gives a value
\* whenever issued does, the data has a duration, and datetime can hold the sum.
C20_ExpiryLaw ==
    olast.op = "expiry" =>
        /\ olast.outcome = "ok" =>
                /\ "duration" \in DOMAIN order.data
                /\ order._cached_issued.set
                /\ IssuedOf(order.data.issued).value = order._cached_issued.value
                /\ SecondsBetween(order._cached_issued.value, olast.value)
                        = order.data.duration * 86400
                /\ olast.value.us = order._cached_issued.value.us
        /\ (/\ IssuedOf(order.data.issued).outcome = "ok"
            /\ "duration" \in DOMAIN order.data
            /\ IssuedOf(order.data.issued).value.k + 87 * order.data.duration < 253402300)
                => olast.outcome = "ok"

\* C20's case: expiry of an order issued at 1530556413413 ms with duration 90
\* is 7776000 seconds later.
C20_Witness ==
    /\ olast.op = "expiry" /\ olast.outcome = "ok"
    /\ order.data.issued = [kind |-> "int", neg |-> FALSE, hi |-> 1530556413, lo |-> 413]
    /\ order.data.duration = 90
    /\ olast.value = [k |-> 1538332, r |-> 413, us |-> 413000]

---------------------------------------------------------------------------
(* What the claims about the sources of issued and its caching speak of. *)

\* The step is a read of issued that ran the wrapped function.
IssuedComputed ==
    /\ order.made /\ ~order._cached_issued.set
    /\ olast'.op = "issued" /\ fget_calls' = fget_calls + 1

\* The unit an integer is read in.
UnitOf(raw) == IF StrLen(raw) >= 13 THEN "ms" ELSE "s"

\* C21: a read of issued that computes its value gives the v of a pyswagger
\* Datetime as it is; else, for an int or a string of digits that datetime can
\* hold as an epoch count, the instant of that count; else, for a date-time
\* string, a value, which is the instant the string names when it carries an
\* offset; and else it raises (ValueError on a string, the parser's TypeError
\* on an int) and keeps no value.
C21_ThreeEncodingsInOrder ==
    [][IssuedComputed =>
        LET raw == order.data.issued
        IN  IF raw.kind = "Datetime"
            THEN olast'.outcome = "ok" /\ olast'.value = raw.v
            ELSE IF IntegerLike(raw) /\ ReadAs(UnitOf(raw), raw).known
            THEN olast'.outcome = "ok" /\ olast'.value = ReadAs(UnitOf(raw), raw).value
            ELSE IF raw.kind = "str" /\ raw.text = "iso"
            THEN /\ olast'.outcome = "ok"
                 /\ raw.offset.given =>
                        olast'.value = HoursBefore(raw.wall, raw.offset.hours)
            ELSE /\ olast'.outcome = (IF raw.kind = "str" THEN "ValueError" ELSE "TypeError")
                 /\ ~order'._cached_issued.set]_vars

\* C21's case: issued of "2018-05-29T18:22:34+0100", which is no Datetime and
\* no integer, is 17:22:34 UTC; one call of the wrapped function gave it.
C21_Witness ==
    /\ olast.op = "issued" /\ olast.outcome = "ok" /\ fget_calls = 1
    /\ order.data.issued \in IsoStrings
    /\ order.data.issued.offset = Offset(1)
    /\ olast.value = [k |-> 1527614, r |-> 554, us |-> 0]

\* The same date-time string with +0000 appended.
WithUtcOffset(raw) == [raw EXCEPT !.offset = Offset(0)]

\* C22 as stated: a read of issued that computes its value from a date-time
\* string without an offset gives, whatever the zone of the machine, the
\* instant of the same string with +0000.
C22_NaiveStringIsUtc ==
    [][(/\ IssuedComputed
        /\ order.data.issued \in IsoStrings
        /\ ~order.data.issued.offset.given) =>
            /\ olast'.outcome = "ok"
            /\ olast'.value = parse_datetime(WithUtcOffset(order.data.issued), olast'.tz).value
      ]_vars

\* C23 as stated: the function a cached property wraps runs at most once on an
\* object.
C23_ComputedAtMostOnce == fget_calls <= 1

\* C23: once a read of issued has computed a value, the value stays in
\* _cached_issued as it is, the wrapped function does not run again, and every
\* read of issued returns the kept value, whatever the data has become; a read
\* that raises keeps no value, so that the next read computes again.
C23_KeptOnceComputed ==
    [][/\ order._cached_issued.set =>
            /\ order'._cached_issued = order._cached_issued
            /\ fget_calls' = fget_calls
            /\ olast'.op = "issued" =>
                    /\ olast'.outcome = "ok"
                    /\ olast'.value = order._cached_issued.value
       /\ (IssuedComputed /\ olast'.outcome # "ok") => ~order'._cached_issued.set
       /\ (IssuedComputed /\ olast'.outcome = "ok") =>
            order'._cached_issued = [set |-> TRUE, value |-> olast'.value]]_vars

\* C23's case: issued returned a value although the data now holds a string no
\* parser reads: the value was computed once, before the data was changed.
C23_Witness ==
    /\ olast.op = "issued" /\ olast.outcome = "ok"
    /\ order.data.issued \in JunkStrings
    /\ order._cached_issued.set /\ olast.value = order._cached_issued.value
    /\ fget_calls = 1

---------------------------------------------------------------------------
(* What the claims about the market's lists across calls speak of. *)

\* The step is a call of update.
UpdateStep == last'.op = "update" /\ calls' = calls + 1

\* C27 as stated: with the calls of update made one after the other, the
\* snapshots of any one list all carry the same capture timestamp.
C27_OneTimestampPerList ==
    \A p \in PathsOf(_data) :
        LET list == _data[p[1]][p[2]][p[3]][p[4]]
        IN  \A i, j \in 1..Len(list) : list[i].t = list[j].t

\* C29: update(R) leaves every other region as it was: it has the same keys
\* and the same lists after the call as before it, and a region the market did
\* not hold is not added, whatever the fetched records say of their place.
C29_OtherRegionsUntouched ==
    [][UpdateStep =>
        \A R \in RegionIds \ {last'.region_id} :
            /\ (R \in DOMAIN _data') = (R \in DOMAIN _data)
            /\ R \in DOMAIN _data => _data'[R] = _data[R]]_vars

\* C29's case: update(20) stored a record that names region 10 while region 10
\* held a list: the record is under region 20, region 10 has what it had.
C29_Witness ==
    /\ last.op = "update" /\ last.region_id = 20 /\ last.raised = 0
    /\ \E i \in 1..Len(last.fetched) :
            /\ "region_id" \in DOMAIN last.fetched[i]
            /\ last.fetched[i].region_id = 10
    /\ 10 \in DOMAIN _data /\ 20 \in DOMAIN _data
    /\ \E p \in PathsOf(_data) : p[1] = 10 /\ Len(_data[10][p[2]][p[3]][p[4]]) > 0
    /\ \E p \in PathsOf(_data) :
            /\ p[1] = 20
            /\ \E i \in 1..Len(_data[20][p[2]][p[3]][p[4]]) :
                    "region_id" \in DOMAIN _data[20][p[2]][p[3]][p[4]][i].data

---------------------------------------------------------------------------
(* What the claim about the growth of the versioned order speaks of. *)

\* C26: a call of add never removes a key and never lowers the number of
\* snapshots; an add that raises leaves the dict as it was, and an add that
\* succeeds changes the value at one key at most, which it sets or overwrites.
C26_OnlyGrows ==
    [][AddStep =>
        /\ DOMAIN snapshots \subseteq DOMAIN snapshots'
        /\ Cardinality(DOMAIN snapshots') >= Cardinality(DOMAIN snapshots)
        /\ vlast'.outcome # "ok" => snapshots' = snapshots
        /\ vlast'.outcome = "ok" =>
                \E key \in DOMAIN snapshots' :
                    /\ DOMAIN snapshots' = DOMAIN snapshots \cup {key}
                    /\ \A k \in DOMAIN snapshots \ {key} : snapshots'[k] = snapshots[k]]_vars

\* C26's case: an instance that held two snapshots refused a call of add: both
\* keys are still there, with what they held.
C26_Witness ==
    /\ inst = "ready" /\ vlast.op = "add" /\ vlast.outcome # "ok"
    /\ Cardinality(DOMAIN vlast.before) = 2
    /\ snapshots = vlast.before

---------------------------------------------------------------------------
(* What the claim about a failed construction speaks of. *)

\* C28 as stated: a construction whose metadata lookup fails leaves no
\* instance under that id in the class's cache, and a construction by an id
\* the static data does not know fails, the first time and every later time.
C28_FailedLookupCachesNothing ==
    [][NewStep =>
        /\ plast'.outcome = "KeyError" =>
                plast'.id \notin DOMAIN _cache'[plast'.cls]
        /\ (plast'.ident.kind = "int"
                /\ get_metadata(plast'.cls, plast'.ident.id).raises) =>
                plast'.outcome # "ok"]_vars

---------------------------------------------------------------------------
(* Market.update and reads of the market, called from threads: the statements *)
(* of one call run in order, those of two calls in any order.                 *)

\* The calls the threads begin on the market.
MaxThreadCalls == 3

\* The feed of one station: two types there, and a record without location_id.
ThreadRecords ==
    { OrderAt(<<31, 311>>, 34), OrderAt(<<31, 311>>, 35),
      [order_id |-> 3, type_id |-> 34, system_id |-> 31] }

ThreadFetchOutcomes ==
    {[raises |-> TRUE, records |-> <<>>]}
    \cup {[raises |-> FALSE, records |-> b] :
            b \in UNION {[1..n -> ThreadRecords] : n \in 0..MaxBatch}}

\* The lists a thread reads.
ReadPaths == {<<10, 31, 311, 34>>, <<10, 31, 311, 35>>}

\* d with the list at path p set.
StoreAt(d, p, list) ==
    SetItem(d, p[1],
        SetItem(d[p[1]], p[2],
            SetItem(d[p[1]][p[2]], p[3],
                SetItem(d[p[1]][p[2]][p[3]], p[4], list))))

\* A variant of list.append that drops the snapshot.
ListAppendDropped(order_list, snapshot) == order_list

\* order_list.append(snapshot)
ListAppend(order_list, snapshot) == Append(order_list, snapshot)

\* The thread is inside a call of update.
InUpdate(th) == threads[th].op = "update" /\ threads[th].pc # "idle"

\* Lines 49-57: the clock is read, region_node = self._data[region_id] inserts
\* the region when it is new, seen is the empty set, and the fetch returns its
\* list of records or raises.
update_call(th, region_id, fetched, tstamp) ==
    /\ threads[th].pc = "idle"
    /\ tcalls < MaxThreadCalls
    /\ tcalls' = tcalls + 1
    /\ _data' = Missing(_data, region_id, EmptyDict)
    /\ threads' = [threads EXCEPT ![th] =
            [Idle EXCEPT !.op = "update", !.call = tcalls + 1,
                         !.region_id = region_id, !.tstamp = tstamp,
                         !.records = fetched.records, !.i = 1,
                         !.pc = IF fetched.raises THEN "idle" ELSE "for",
                         !.outcome = IF fetched.raises THEN "Exception" ELSE "ok"]]
    /\ overlapped' = (overlapped
                        \/ (~fetched.raises /\ \E u \in ThreadIds \ {th} : InUpdate(u)))
    /\ UNCHANGED filled
    /\ UNCHANGED <<last, calls, versionedVars, placeVars, orderVars, makerVars>>

\* Lines 58-61 for the next record: its keys are read (KeyError when one is
\* missing, after the nodes read so far were inserted), the nodes on its path
\* are inserted where they are new, and order_list is the list at the path.
update_lookup(th) ==
    /\ threads[th].pc = "for"
    /\ threads[th].i <= Len(threads[th].records)
    /\ LET data == threads[th].records[threads[th].i]
           R == threads[th].region_id
       IN  IF "type_id" \notin DOMAIN data \/ "system_id" \notin DOMAIN data
           THEN /\ threads' = [threads EXCEPT ![th].pc = "idle",
                                              ![th].outcome = "KeyError"]
                /\ UNCHANGED _data
           ELSE IF "location_id" \notin DOMAIN data
           THEN /\ threads' = [threads EXCEPT ![th].pc = "idle",
                                              ![th].outcome = "KeyError"]
                /\ _data' = Vivified(_data, <<R, data.system_id>>, 1)
           ELSE /\ threads' = [threads EXCEPT ![th].pc = "if",
                                              ![th].path = <<R>> \o StoreKey(data)]
                /\ _data' = Vivified(_data, <<R>> \o StoreKey(data), 1)
    /\ UNCHANGED <<filled, overlapped, tcalls>>
    /\ UNCHANGED <<last, calls, versionedVars, placeVars, orderVars, makerVars>>

\* Lines 62-65: at the first sighting of the type in this call the contents of
\* the list are removed, and the type is added to seen.
update_clear(th) ==
    /\ threads[th].pc = "if"
    /\ LET p == threads[th].path
           order_list == ListAt(_data, p)
       IN  /\ _data' = StoreAt(_data, p,
                            ClearOnFirstSighting(order_list, p[4], threads[th].seen))
           /\ threads' = [threads EXCEPT
                            ![th].pc = "append",
                            ![th].seen = @ \cup {p[4]},
                            ![th].removed = IF p[4] \in threads[th].seen
                                            THEN <<>> ELSE order_list]
    /\ UNCHANGED <<filled, overlapped, tcalls>>
    /\ UNCHANGED <<last, calls, versionedVars, placeVars, orderVars, makerVars>>

\* Lines 66-68: the snapshot of the record is appended to the list as it is now.
update_append(th) ==
    /\ threads[th].pc = "append"
    /\ LET p == threads[th].path
       IN  /\ _data' = StoreAt(_data, p,
                            ListAppend(ListAt(_data, p),
                                MarketOrderSnapshot(threads[th].records[threads[th].i],
                                                    threads[th].tstamp)))
           /\ filled' = filled \cup {p}
    /\ threads' = [threads EXCEPT ![th].pc = "for", ![th].i = @ + 1]
    /\ UNCHANGED <<overlapped, tcalls>>
    /\ UNCHANGED <<last, calls, versionedVars, placeVars, orderVars, makerVars>>

\* Line 69, once the loop is over.
update_return(th) ==
    /\ threads[th].pc = "for"
    /\ threads[th].i > Len(threads[th].records)
    /\ threads' = [threads EXCEPT ![th].pc = "idle"]
    /\ UNCHANGED <<_data, filled, overlapped, tcalls>>
    /\ UNCHANGED <<last, calls, versionedVars, placeVars, orderVars, makerVars>>

\* list(market[region_id][system_id][location_id][type_id]): a read of the
\* list's contents as they are now.
read(th, path) ==
    /\ threads[th].pc = "idle"
    /\ tcalls < MaxThreadCalls
    /\ tcalls' = tcalls + 1
    /\ _data' = Vivified(_data, path, 1)
    /\ threads' = [threads EXCEPT ![th] =
            [Idle EXCEPT !.op = "read", !.call = tcalls + 1, !.path = path,
                         !.retval = Lookup(_data, path, 1)]]
    /\ UNCHANGED <<filled, overlapped>>
    /\ UNCHANGED <<last, calls, versionedVars, placeVars, orderVars, makerVars>>

\* The clock advances from one call to the next: the call begun as the n-th
\* reads the time n.
NextThreads ==
    \/ \E th \in ThreadIds, fetched \in ThreadFetchOutcomes :
            update_call(th, 10, fetched, tcalls + 1)
    \/ \E th \in ThreadIds : update_lookup(th)
    \/ \E th \in ThreadIds : update_clear(th)
    \/ \E th \in ThreadIds : update_append(th)
    \/ \E th \in ThreadIds : update_return(th)
    \/ \E th \in ThreadIds, path \in ReadPaths : read(th, path)

\* The market called from two threads, with no lock.
SpecThreads == Init /\ [][NextThreads]_vars

---------------------------------------------------------------------------
(* What the claims about the market under concurrent calls speak of. *)

\* The step is a read by the thread.
ReadStep(th) ==
    /\ tcalls' = tcalls + 1
    /\ threads'[th].call = tcalls' /\ threads'[th].op = "read"

\* The thread has removed the contents of the list at p and not yet appended.
BetweenClearAndAppend(u, p) ==
    threads[u].pc = "append" /\ threads[u].path = p

\* C24: a list that has held a snapshot is read empty only by a reader that
\* runs while an update stands between the clear of that list and the append
\* that follows it; there is no other way for it to be empty.
C24_EmptyOnlyMidUpdate ==
    [][\A th \in ThreadIds :
        (ReadStep(th) /\ threads'[th].retval = <<>> /\ threads'[th].path \in filled) =>
            \E u \in ThreadIds \ {th} : BetweenClearAndAppend(u, threads'[th].path)]_vars

\* C24's case: a list held a snapshot, an update removed it and has not yet
\* appended the one of its own feed, and a reader has just read the list empty.
C24_Witness ==
    \E th \in ThreadIds, u \in ThreadIds :
        /\ threads[th].op = "read" /\ threads[th].call = tcalls
        /\ threads[th].retval = <<>>
        /\ BetweenClearAndAppend(u, threads[th].path)
        /\ threads[u].removed # <<>>
        /\ ListAt(_data, threads[th].path) = <<>>

\* Some list holds snapshots of two capture timestamps.
MixedList ==
    \E p \in PathsOf(_data) :
        \E i, j \in 1..Len(ListAt(_data, p)) :
            ListAt(_data, p)[i].t # ListAt(_data, p)[j].t

\* C25: on the feed of one station, a list comes to hold snapshots of two
\* capture timestamps only when an update began while another was running:
\* updates that run one after the other never leave such a list.
C25_MixedOnlyWhenOverlapped == MixedList => overlapped

\* C25's case: both updates have returned, and a list holds the same order
\* twice, captured at two different times.
C25_Witness ==
    /\ \A th \in ThreadIds : threads[th].pc = "idle" /\ threads[th].op = "update"
    /\ \E p \in PathsOf(_data) :
            /\ Len(ListAt(_data, p)) = 2
            /\ ListAt(_data, p)[1].data = ListAt(_data, p)[2].data
            /\ ListAt(_data, p)[1].t # ListAt(_data, p)[2].t

---------------------------------------------------------------------------
(* _Location.__new__ and StaticEntity.__new__, called from threads: the       *)
(* statements of one construction run in order, those of two in any order.    *)

\* The constructions the threads begin.
MaxMakerCalls == 3

\* Line 13: id_ is the ident when it is an int, and cls.get_id(ident) else,
\* which raises AttributeError when no row has the name.
new_call(m, cls, ident) ==
    /\ makers[m].pc = "rest"
    /\ mcalls < MaxMakerCalls
    /\ mcalls' = mcalls + 1
    /\ LET looked == IF ident.kind = "int"
                     THEN [raises |-> FALSE, id |-> ident.id]
                     ELSE get_id(cls, ident.name)
       IN  makers' = [makers EXCEPT ![m] =
                [Resting EXCEPT !.call = mcalls + 1, !.cls = cls, !.ident = ident,
                                !.id_ = looked.id,
                                !.pc = IF looked.raises THEN "rest" ELSE "try",
                                !.outcome = IF looked.raises THEN "AttributeError"
                                            ELSE "ok"]]
    /\ UNCHANGED <<_cache, made, held, plast, pcalls>>
    /\ UNCHANGED <<marketVars, versionedVars, orderVars, threadVars>>

\* Lines 14-16: inst = cls._cache[id_], or KeyError when the cache has no
\* such id yet.
new_try(m) ==
    /\ makers[m].pc = "try"
    /\ IF makers[m].id_ \in DOMAIN _cache[makers[m].cls]
       THEN makers' = [makers EXCEPT
                        ![m].pc = "return",
                        ![m].inst = _cache[makers[m].cls][makers[m].id_].obj]
       ELSE makers' = [makers EXCEPT ![m].pc = "create", ![m].missed = TRUE]
    /\ UNCHANGED <<_cache, made, held, plast, pcalls, mcalls>>
    /\ UNCHANGED <<marketVars, versionedVars, orderVars, threadVars>>

\* Line 20: inst = cls._cache[id_] = super().__new__(cls): a new instance is
\* stored under the id, in place of whatever the cache holds there by now.
new_create(m) ==
    /\ makers[m].pc = "create"
    /\ made' = made + 1
    /\ _cache' = [_cache EXCEPT ![makers[m].cls] =
                    SetItem(@, makers[m].id_, [obj |-> made + 1, attrs |-> NoAttrs])]
    /\ makers' = [makers EXCEPT ![m].pc = "metadata", ![m].inst = made + 1]
    /\ UNCHANGED <<held, plast, pcalls, mcalls>>
    /\ UNCHANGED <<marketVars, versionedVars, orderVars, threadVars>>

\* Lines 21-23: the metadata of the id is fetched (KeyError when the static
\* data has none) and set on inst, attribute by attribute; the cache shows
\* them when inst is the instance it holds.
new_metadata(m) ==
    /\ makers[m].pc = "metadata"
    /\ LET cls == makers[m].cls
           md == get_metadata(cls, makers[m].id_)
       IN  IF md.raises
           THEN /\ makers' = [makers EXCEPT ![m].pc = "rest",
                                            ![m].fetched_metadata = TRUE,
                                            ![m].outcome = "KeyError"]
                /\ UNCHANGED _cache
           ELSE /\ makers' = [makers EXCEPT ![m].pc = "return",
                                            ![m].fetched_metadata = TRUE]
                /\ _cache' = IF _cache[cls][makers[m].id_].obj = makers[m].inst
                             THEN [_cache EXCEPT ![cls][makers[m].id_].attrs = md.metadata]
                             ELSE _cache
    /\ UNCHANGED <<made, held, plast, pcalls, mcalls>>
    /\ UNCHANGED <<marketVars, versionedVars, orderVars, threadVars>>

\* Line 24: return inst.
new_return(m) ==
    /\ makers[m].pc = "return"
    /\ makers' = [makers EXCEPT ![m].pc = "rest", ![m].obj = makers[m].inst]
    /\ held' = held \cup {makers[m].inst}
    /\ UNCHANGED <<_cache, made, plast, pcalls, mcalls>>
    /\ UNCHANGED <<marketVars, versionedVars, orderVars, threadVars>>

NextMakers ==
    \/ \E m \in MakerIds, cls \in Classes : \E ident \in Idents(cls) :
            new_call(m, cls, ident)
    \/ \E m \in MakerIds : new_try(m)
    \/ \E m \in MakerIds : new_create(m)
    \/ \E m \in MakerIds : new_metadata(m)
    \/ \E m \in MakerIds : new_return(m)

\* The entity classes called from two threads, with no lock.
SpecMakers == Init /\ [][NextMakers]_vars

---------------------------------------------------------------------------
(* What the claim about concurrent constructions speaks of. *)

\* The thread's last construction has returned an instance.
Returned(m) ==
    makers[m].pc = "rest" /\ makers[m].call > 0 /\ makers[m].outcome = "ok"

\* C30 as stated: when two constructions of one class and one id both looked
\* into the cache before either had stored its instance, both return the same
\* instance, and the metadata of the id was fetched by one of them only.
C30_MemoizedWhenInterleaved ==
    \A m1, m2 \in MakerIds :
        (/\ m1 # m2 /\ Returned(m1) /\ Returned(m2)
         /\ makers[m1].cls = makers[m2].cls /\ makers[m1].id_ = makers[m2].id_
         /\ makers[m1].missed /\ makers[m2].missed) =>
            /\ makers[m1].obj = makers[m2].obj
            /\ ~(makers[m1].fetched_metadata /\ makers[m2].fetched_metadata)

=============================================================================
